---- MODULE Spec2Model ----
(***************************************************************************)
(* Retrieval pipeline of tabletop-atlas: the chunker (pdf.rs), the vector  *)
(* store and its similarity search (db/embeddings.rs, db/mod.rs) and the   *)
(* upload handler that drives them (handlers/upload.rs).                   *)
(*                                                                         *)
(* Numbers: a distance or similarity x is the integer 16 * x, so 1.0 is    *)
(* 16 and the default threshold 0.5 is 8.                                  *)
(***************************************************************************)
EXTENDS Integers, Sequences, FiniteSets, TLC

VARIABLES
    embeddings,      \* table embeddings: rows in rowid order
    vec_embeddings,  \* table vec_embeddings: rows in rowid order
    out,             \* the call last made on the store and what it returned
    ck,              \* the chunker: its input and, once it has run, its output
    games,           \* table games: id -> rules_text and rules_pdf_path
    files,           \* the files in the uploads directory
    clock,           \* the wall clock, in seconds
    up,              \* the upload requests being handled
    em,              \* the embedder: a call of generate_embeddings and its result
    house_rules,     \* table house_rules: id -> the game the rule belongs to
    lock,            \* the mutex of the connection: the request holding it, or 0
    rq               \* the requests that call the store at the same time

storeVars == <<embeddings, vec_embeddings, out>>
uploadVars == <<games, files, clock, up, house_rules>>
concVars == <<lock, rq>>
vars == <<embeddings, vec_embeddings, out, ck, games, files, clock, up, em,
          house_rules, lock, rq>>

----------------------------------------------------------------------------
(* Bounds of the model *)

MaxGames == 2       \* games 1..MaxGames own chunks; MaxGames + 1 owns none
MaxVec == 1         \* embedding vectors are the points 0..MaxVec
BigBatch == 50      \* chunks of a large rulebook, inserted as one batch
MaxSmallRows == 1   \* rows the small batches may add on top of a large one
MaxSentences == 3   \* sentences of a text given to the chunker
MaxUploads == 1     \* upload requests handled at the same time
MaxClock == 1       \* seconds the clock advances
MaxUploadRows == 1  \* an upload starts while the store holds fewer rows
MaxTexts == 3       \* texts of one call of generate_embeddings

Uploads == 1..MaxUploads

MaxTogether == 2    \* uploads in flight together where uploads meet each other
UploadSlots == 1..(IF MaxUploads >= MaxTogether THEN MaxUploads ELSE MaxTogether)

MaxRequests == 2    \* requests that call the store at the same time
MaxBatch == 2       \* chunks of a batch inserted next to other requests
Requests == 1..MaxRequests

GameIds == 1..MaxGames
SearchGameIds == 1..(MaxGames + 1)
Vecs == 0..MaxVec

Max(a, b) == IF a >= b THEN a ELSE b
Min(a, b) == IF a <= b THEN a ELSE b
Abs(a) == IF a >= 0 THEN a ELSE 0 - a
Range(s) == {s[i] : i \in 1..Len(s)}

----------------------------------------------------------------------------
(* Numbers of the source *)

One == 16                 \* 1.0 of `1.0 - distance`
U16 == 65536              \* a u32 is held as two 16-bit halves, hi * 2^16 + lo
MIN_SEARCH_LIMIT == 50    \* std::cmp::max(request.limit * 3, 50)
SEARCH_FACTOR == 3
default_search_limit == 10
default_similarity_threshold == 8   \* 0.5

\* The distance the vector index reports between a query and a stored
\* vector: 0 for the same point, growing with the points' separation.
DistTable == <<0, 1, 8, 24, 32>>
Distance(q, v) == DistTable[Abs(q - v) + 1]

\* `x as f32` for a value computed in f64.  The model's f32 keeps three
\* significant bits where the real one keeps 24: magnitudes below 8 are
\* exact, those in [8, 16) are rounded to a multiple of 2 and those from 16
\* on to a multiple of 4, ties going to the even significand.
F32Ulp(m) == IF m < 8 THEN 1 ELSE IF m < 16 THEN 2 ELSE 4
F32Mag(m) ==
    LET u == F32Ulp(m)
        lo == (m \div u) * u
        hi == lo + u
    IN  IF m = lo THEN m
        ELSE IF 2 * (m - lo) < u THEN lo
        ELSE IF 2 * (m - lo) > u THEN hi
        ELSE IF (lo \div u) % 2 = 0 THEN lo ELSE hi
AsF32(x) == IF x >= 0 THEN F32Mag(x) ELSE 0 - F32Mag(0 - x)

----------------------------------------------------------------------------
(* db/mod.rs: the connection wrapper *)

\* The outcome of a closure run on the connection: the tables as the
\* closure left them, whether it returned Ok, and its value.
Outcome(emb, vec, ok, value) ==
    [emb |-> emb, vec |-> vec, ok |-> ok, value |-> value]

\* with_transaction without the rollback: what the tables would hold if the
\* statements of a failed closure stayed applied.
WithTransactionNoRollback(pre_emb, pre_vec, body, commit_ok) ==
    IF body.ok /\ commit_ok THEN body
    ELSE Outcome(body.emb, body.vec, FALSE, <<>>)

\* Database::with_transaction: `f(&tx)?` drops the transaction on Err, which
\* rolls it back; a failed commit is rolled back too.
WithTransaction(pre_emb, pre_vec, body, commit_ok) ==
    IF body.ok /\ commit_ok THEN body
    ELSE Outcome(pre_emb, pre_vec, FALSE, <<>>)

----------------------------------------------------------------------------
(* db/embeddings.rs: create_embeddings_batch *)

NoFail == [at |-> 0, phase |-> "none"]
FailPhases == {"chunk", "vec"}

\* conn.last_insert_rowid() after the INSERT INTO embeddings: the rowid the
\* table gives a new row.
NewRowid(emb) == IF emb = <<>> THEN 1 ELSE emb[Len(emb)].id + 1

ChunkRow(id, request) ==
    [id |-> id, game_id |-> request.game_id, chunk_text |-> request.chunk_text,
     chunk_index |-> request.chunk_index, source_type |-> request.source_type,
     source_id |-> request.source_id]

VecRow(id, request) == [rowid |-> id, embedding_vector |-> request.embedding]

VecRowids(vec) == {vec[i].rowid : i \in 1..Len(vec)}

\* The `for request in requests` loop from item i on.  fail names the item
\* at which an error is returned and where: "chunk" before the item's chunk
\* row is written (serde_json::to_string or the INSERT INTO embeddings
\* fails), "vec" after it (the INSERT INTO vec_embeddings fails).  Inserting
\* a vector under a rowid the vector table already holds is an error too.
RECURSIVE BatchLoop(_, _, _, _, _, _)
BatchLoop(emb, vec, ids, requests, i, fail) ==
    IF i > Len(requests) THEN Outcome(emb, vec, TRUE, ids)
    ELSE IF fail.at = i /\ fail.phase = "chunk"
    THEN Outcome(emb, vec, FALSE, ids)
    ELSE
        LET embedding_id == NewRowid(emb)
            emb2 == Append(emb, ChunkRow(embedding_id, requests[i]))
        IN  IF (fail.at = i /\ fail.phase = "vec") \/ embedding_id \in VecRowids(vec)
            THEN Outcome(emb2, vec, FALSE, ids)
            ELSE BatchLoop(emb2, Append(vec, VecRow(embedding_id, requests[i])),
                           Append(ids, embedding_id), requests, i + 1, fail)

create_embeddings_batch(emb, vec, requests, fail, commit_ok) ==
    WithTransaction(emb, vec, BatchLoop(emb, vec, <<>>, requests, 1, fail), commit_ok)

----------------------------------------------------------------------------
(* db/embeddings.rs: similarity_search *)

\* request.limit * 3 in 32 bits (u32 multiplication, wrapping), as halves.
Mul3U32(limit) ==
    LET lo3 == (limit % U16) * SEARCH_FACTOR
        hi3 == (limit \div U16) * SEARCH_FACTOR + lo3 \div U16
    IN  [hi |-> hi3 % U16, lo |-> lo3 % U16]

\* std::cmp::max(request.limit * 3, 50)
SearchLimit(limit) ==
    LET p == Mul3U32(limit)
    IN  IF p.hi > 0 THEN p ELSE [hi |-> 0, lo |-> Max(p.lo, MIN_SEARCH_LIMIT)]

\* LIMIT ?2 applied to len rows
Limited(search_limit, len) ==
    IF search_limit.hi > 0 THEN len ELSE Min(search_limit.lo, len)

RECURSIVE ConcatLevels(_, _, _, _)
\* Rows of vec in ascending distance from q; rows at the same distance in
\* ascending rowid order, or descending when rev: ORDER BY distance leaves
\* the order within one distance to the index.
ConcatLevels(vec, q, levels, rev) ==
    IF levels = {} THEN <<>>
    ELSE LET d == CHOOSE x \in levels : \A y \in levels : x <= y
             same == SelectSeq(vec, LAMBDA r : Distance(q, r.embedding_vector) = d)
             tied == IF rev THEN [i \in 1..Len(same) |-> same[Len(same) + 1 - i]]
                     ELSE same
         IN  [i \in 1..Len(tied) |-> [rowid |-> tied[i].rowid, distance |-> d]]
             \o ConcatLevels(vec, q, levels \ {d}, rev)

\* Query 1: SELECT rowid, distance FROM vec_embeddings WHERE embedding_vector
\* MATCH ?1 ORDER BY distance LIMIT ?2
KnnQuery(vec, q, search_limit, rev) ==
    LET levels == {Distance(q, vec[i].embedding_vector) : i \in 1..Len(vec)}
        sorted == ConcatLevels(vec, q, levels, rev)
    IN  SubSeq(sorted, 1, Limited(search_limit, Len(sorted)))

\* Query 2 without `AND game_id = ?`.
MetadataQueryAnyGame(emb, vec_results, game_id) ==
    LET candidates == {vec_results[i].rowid : i \in 1..Len(vec_results)}
    IN  SelectSeq(emb, LAMBDA e : e.id \in candidates)

\* Query 2: the rows of embeddings whose id is among the candidates and
\* whose game_id is the request's.
MetadataQuery(emb, vec_results, game_id) ==
    LET candidates == {vec_results[i].rowid : i \in 1..Len(vec_results)}
    IN  SelectSeq(emb, LAMBDA e : e.id \in candidates /\ e.game_id = game_id)

SearchResult(meta, similarity_score) ==
    [id |-> meta.id, chunk_text |-> meta.chunk_text,
     similarity_score |-> AsF32(similarity_score),
     source_type |-> meta.source_type, source_id |-> meta.source_id]

PassesThreshold(similarity_score, similarity_threshold) ==
    similarity_score >= similarity_threshold

RECURSIVE CombineLoop(_, _, _, _, _)
\* The `for (rowid, distance) in vec_results` loop from candidate i on.
CombineLoop(vec_results, metadata_results, request, results, i) ==
    IF i > Len(vec_results) THEN results
    ELSE
        LET rowid == vec_results[i].rowid
            found == SelectSeq(metadata_results, LAMBDA m : m.id = rowid)
            similarity_score == One - vec_results[i].distance
        IN  IF found # <<>> /\ PassesThreshold(similarity_score, request.similarity_threshold)
            THEN LET pushed == Append(results, SearchResult(found[1], similarity_score))
                 IN  IF Len(pushed) >= request.limit THEN pushed
                     ELSE CombineLoop(vec_results, metadata_results, request, pushed, i + 1)
            ELSE CombineLoop(vec_results, metadata_results, request, results, i + 1)

similarity_search(emb, vec, request, rev) ==
    LET vec_results == KnnQuery(vec, request.query_embedding,
                                SearchLimit(request.limit), rev)
    IN  IF vec_results = <<>> THEN <<>>
        ELSE CombineLoop(vec_results,
                         MetadataQuery(emb, vec_results, request.game_id),
                         request, <<>>, 1)

----------------------------------------------------------------------------
(* pdf.rs: the chunker.  A text is a sequence of one-character strings. *)

CHUNK_SIZE == 1000
CHUNK_OVERLAP == 300
MIN_CHUNK_SIZE == 100
MAX_CHUNK_SIZE == 1500
MIN_SENTENCE_LEN == 10    \* a sentence is kept when sentence.len() > 10
ABBREV_LOOKBACK == 10     \* pos.saturating_sub(10)

Terminators == {".", "!", "?"}
Closers == {"\"", "'", ")", "]", "}"}
Blanks == {" ", "\t"}
Whitespace == {" ", "\t", "\n"}
Digits == {"0", "1", "2", "3", "4", "5", "6", "7", "8", "9"}
UpperCase == <<"A", "B", "C", "D", "E", "F", "G", "H", "I", "J", "K", "L", "M",
               "N", "O", "P", "Q", "R", "S", "T", "U", "V", "W", "X", "Y", "Z">>
LowerCase == <<"a", "b", "c", "d", "e", "f", "g", "h", "i", "j", "k", "l", "m",
               "n", "o", "p", "q", "r", "s", "t", "u", "v", "w", "x", "y", "z">>

IsUpper(c) == \E i \in 1..Len(UpperCase) : UpperCase[i] = c
ToLowerChar(c) ==
    IF IsUpper(c) THEN LowerCase[CHOOSE i \in 1..Len(UpperCase) : UpperCase[i] = c]
    ELSE c
to_lowercase(s) == [i \in 1..Len(s) |-> ToLowerChar(s[i])]

RECURSIVE SkipForward(_, _, _)
\* The first position from i on whose character is not in skip, or Len + 1.
SkipForward(s, i, skip) ==
    IF i <= Len(s) /\ s[i] \in skip THEN SkipForward(s, i + 1, skip) ELSE i

RECURSIVE SkipBackward(_, _, _)
\* The last position up to i whose character is not in skip, or 0.
SkipBackward(s, i, skip) ==
    IF i >= 1 /\ s[i] \in skip THEN SkipBackward(s, i - 1, skip) ELSE i

\* str::trim
Trim(s) == SubSeq(s, SkipForward(s, 1, Whitespace), SkipBackward(s, Len(s), Whitespace))

ends_with(s, pat) ==
    Len(pat) <= Len(s) /\ SubSeq(s, Len(s) - Len(pat) + 1, Len(s)) = pat

contains(s, pat) ==
    \E i \in 1..(Len(s) - Len(pat) + 1) :
        s[i] = pat[1] /\ SubSeq(s, i, i + Len(pat) - 1) = pat

\* The least element of a non-empty set of positions.
Least(S) == CHOOSE x \in S : \A y \in S : x <= y

RECURSIVE Lines(_, _, _)
\* str::lines from position i on; breaks is the set of newline positions.
Lines(text, i, breaks) ==
    LET later == {b \in breaks : b >= i}
    IN  IF later = {} THEN IF i > Len(text) THEN <<>> ELSE <<SubSeq(text, i, Len(text))>>
        ELSE <<SubSeq(text, i, Least(later) - 1)>> \o Lines(text, Least(later) + 1, breaks)

RECURSIVE Join(_, _)
\* [..].join(sep)
Join(parts, sep) ==
    IF parts = <<>> THEN <<>>
    ELSE IF Len(parts) = 1 THEN parts[1]
    ELSE parts[1] \o sep \o Join(Tail(parts), sep)

RECURSIVE ReplaceDoubleSpace(_, _, _)
\* .replace("  ", " ") from position i on: one pass, left to right, over the
\* non-overlapping pairs of spaces; doubles is the set of positions that
\* start a pair.
ReplaceDoubleSpace(s, i, doubles) ==
    LET later == {d \in doubles : d >= i}
    IN  IF later = {} THEN SubSeq(s, i, Len(s))
        ELSE SubSeq(s, i, Least(later)) \o ReplaceDoubleSpace(s, Least(later) + 2, doubles)

\* Processor::clean_text
clean_text(text) ==
    LET lines == Lines(text, 1, {i \in 1..Len(text) : text[i] = "\n"})
        trimmed == [i \in 1..Len(lines) |-> Trim(lines[i])]
        joined == Join(SelectSeq(trimmed, LAMBDA l : l # <<>>), <<" ">>)
        doubles == {i \in 1..(Len(joined) - 1) : joined[i] = " " /\ joined[i + 1] = " "}
    IN  Trim(ReplaceDoubleSpace(joined, 1, doubles))

Abbreviations ==
    { <<"v", "s">>, <<"e", "t", "c">>, <<"e", ".", "g">>, <<"i", ".", "e">>,
      <<"m", "r">>, <<"m", "r", "s">>, <<"d", "r">>, <<"n", "o">>,
      <<"i", "n", "c">>, <<"l", "t", "d">> }

RECURSIVE NumberStart(_, _)
\* `while j > 0 && (chars[j].is_numeric() || chars[j] == ' ') { j -= 1 }`,
\* with j a 0-based index (chars[j] is s[j + 1]).
NumberStart(s, j) ==
    IF j > 0 /\ (s[j + 1] \in Digits \/ s[j + 1] = " ") THEN NumberStart(s, j - 1) ELSE j

\* Processor::is_sentence_end, pos a 1-based position of s
is_sentence_end(s, pos) ==
    LET ch == s[pos]
        before == to_lowercase(SubSeq(s, Max(1, pos - ABBREV_LOOKBACK), pos - 1))
        j == NumberStart(s, pos - 2)
        next_pos == SkipForward(s, pos + 1, Whitespace \cup Closers)
    IN  /\ ch \in Terminators
        /\ ch = "." => \A abbrev \in Abbreviations : ~ends_with(before, abbrev)
        /\ (ch = "." /\ pos > 1 /\ s[pos - 1] \in Digits) => ~(j = 0 \/ s[j + 1] = "\n")
        /\ \/ next_pos > Len(s)
           \/ IsUpper(s[next_pos])
           \/ s[next_pos] \in Digits

\* A sentence is pushed when it is non-empty and longer than 10.
KeptSentence(sentence) ==
    IF sentence # <<>> /\ Len(sentence) > MIN_SENTENCE_LEN THEN <<sentence>> ELSE <<>>

RECURSIVE SplitFrom(_, _, _)
\* The `while i < chars.len()` loop of split_into_sentences with the current
\* sentence starting at position start; ends is the set of positions at
\* which is_sentence_end holds.
SplitFrom(s, start, ends) ==
    LET later == {e \in ends : e >= start}
    IN  IF later = {} THEN KeptSentence(Trim(SubSeq(s, start, Len(s))))
        ELSE LET e == Least(later)
                 next == SkipForward(s, e + 1, Closers \cup Blanks)
                 trailing == SelectSeq(SubSeq(s, e + 1, next - 1), LAMBDA c : c \notin Blanks)
             IN  KeptSentence(Trim(SubSeq(s, start, e) \o trailing))
                 \o SplitFrom(s, next, ends)

\* Processor::split_into_sentences
split_into_sentences(s) ==
    SplitFrom(s, 1, {i \in 1..Len(s) : s[i] \in Terminators /\ is_sentence_end(s, i)})

ConclusionWords ==
    { <<"t", "h", "e", "r", "e", "f", "o", "r", "e">>, <<"t", "h", "u", "s">>,
      <<"f", "i", "n", "a", "l", "l", "y">>,
      <<"i", "n", " ", "c", "o", "n", "c", "l", "u", "s", "i", "o", "n">> }
ConclusionEndings ==
    { <<"w", "i", "n", "s", ".">>, <<"w", "i", "n", "s", "!">>,
      <<"c", "o", "m", "p", "l", "e", "t", "e", ".">>,
      <<"f", "i", "n", "i", "s", "h", "e", "d", ".">> }
ProcedureWords ==
    { <<"f", "i", "r", "s", "t">>, <<"t", "h", "e", "n">>, <<"n", "e", "x", "t">>,
      <<"a", "f", "t", "e", "r">>, <<"b", "e", "f", "o", "r", "e">> }

\* Processor::is_good_chunk_boundary
is_good_chunk_boundary(sentence) ==
    LET sentence_lower == to_lowercase(sentence)
    IN  \/ \E w \in ConclusionWords : contains(sentence_lower, w)
        \/ \E w \in ConclusionEndings : ends_with(sentence_lower, w)
        \/ ~ \/ \E w \in ProcedureWords : contains(sentence_lower, w)
             \/ ends_with(sentence_lower, <<":">>)

RECURSIVE OverlapFrom(_, _, _, _)
\* The `for sentence in sentences.iter().rev()` loop of
\* create_sentence_overlap at sentence k.
OverlapFrom(sentences, k, overlap, current_length) ==
    IF k < 1 THEN overlap
    ELSE IF current_length + Len(sentences[k]) <= CHUNK_OVERLAP
    THEN OverlapFrom(sentences, k - 1,
                     IF overlap = <<>> THEN sentences[k]
                     ELSE sentences[k] \o <<" ">> \o overlap,
                     current_length + Len(sentences[k]) + 1)
    ELSE overlap

\* create_sentence_overlap handing on the last sentence only
LastSentenceOverlap(sentences) ==
    IF sentences # <<>> /\ Len(sentences[Len(sentences)]) <= CHUNK_OVERLAP
    THEN sentences[Len(sentences)] ELSE <<>>

\* Processor::create_sentence_overlap
create_sentence_overlap(sentences) == OverlapFrom(sentences, Len(sentences), <<>>, 0)

RECURSIVE ChunkLoop(_, _, _, _, _)
\* The `for sentence in sentences` loop of chunk_text at sentence i, and the
\* final push after it.
ChunkLoop(sentences, i, current_chunk, sentence_buffer, chunks) ==
    IF i > Len(sentences)
    THEN IF Len(Trim(current_chunk)) >= MIN_CHUNK_SIZE
         THEN Append(chunks, Trim(current_chunk)) ELSE chunks
    ELSE
        LET sentence == Trim(sentences[i])
            would_exceed == /\ current_chunk # <<>>
                            /\ Len(current_chunk) + Len(sentence) + 1 > MAX_CHUNK_SIZE
            closed == would_exceed /\ Len(current_chunk) >= MIN_CHUNK_SIZE
            chunks1 == IF closed THEN Append(chunks, Trim(current_chunk)) ELSE chunks
            start == IF closed THEN create_sentence_overlap(sentence_buffer)
                     ELSE current_chunk
            buffer1 == IF closed THEN <<>> ELSE sentence_buffer
            chunk2 == IF start # <<>> THEN start \o <<" ">> \o sentence ELSE sentence
            buffer2 == Append(buffer1, sentence)
        IN  IF sentence = <<>>
            THEN ChunkLoop(sentences, i + 1, current_chunk, sentence_buffer, chunks)
            ELSE IF Len(chunk2) >= CHUNK_SIZE /\ is_good_chunk_boundary(sentence)
            THEN ChunkLoop(sentences, i + 1, create_sentence_overlap(buffer2), <<>>,
                           Append(chunks1, Trim(chunk2)))
            ELSE ChunkLoop(sentences, i + 1, chunk2, buffer2, chunks1)

\* Processor::chunk_text
chunk_text(text) ==
    IF Trim(text) = <<>> THEN <<>>
    ELSE LET sentences == split_into_sentences(clean_text(text))
         IN  IF sentences = <<>> THEN <<>>
             ELSE ChunkLoop(sentences, 1, <<>>, <<>>, <<>>)

----------------------------------------------------------------------------
(* The store driven directly: batches inserted, searches run *)

BatchSizes == {1, BigBatch}
FailPoints(n) == {1, (n + 1) \div 2, n}
\* limit 0, limit 1, and the least limit whose triple exceeds the floor of 50
Limits == {0, 1, MIN_SEARCH_LIMIT \div SEARCH_FACTOR + 1}
Thresholds == {default_similarity_threshold, One}

\* A batch of n chunks of game g, each with the vector v.
BatchRequests(g, n, v) ==
    [i \in 1..n |->
        [game_id |-> g, chunk_text |-> <<g, i - 1>>, chunk_index |-> i - 1,
         embedding |-> v, source_type |-> "rules_pdf", source_id |-> 0]]

\* The stores explored: a large batch goes into the empty store, and at
\* most MaxSmallRows rows are added by the small batches.
BatchFits(emb, n) ==
    IF n = BigBatch THEN emb = <<>>
    ELSE (Len(emb) % BigBatch) + n <= MaxSmallRows

NoCall == [op |-> "none"]

ChunkerIdle == [pc |-> "idle"]

EmbedderIdle == [pc |-> "idle"]

NoRequest == [pc |-> "idle"]

None == <<>>
Some(x) == <<x>>

\* An upload slot with no request in it.
Idle ==
    [pc |-> "idle", game_id |-> 0, body |-> <<>>, file_path |-> None,
     game_before |-> None, full_text |-> None, chunks |-> <<>>, vectors |-> <<>>,
     embed_outcome |-> "none", batch_called |-> FALSE, inserted |-> <<>>,
     response |-> "none", failed_at |-> "none", stages |-> <<>>]

\* An empty database, no call made, no text given to the chunker.
Init ==
    /\ embeddings = <<>>
    /\ vec_embeddings = <<>>
    /\ out = NoCall
    /\ ck = ChunkerIdle
    /\ games = <<>>
    /\ files = {}
    /\ clock = 0
    /\ up = [r \in UploadSlots |-> Idle]
    /\ em = EmbedderIdle
    /\ house_rules = <<>>
    /\ lock = 0
    /\ rq = [r \in Requests |-> NoRequest]

\* One call is made at a time: the next starts once the caller has taken
\* the result of the last.
StoreInsertBatch ==
    /\ out = NoCall
    /\ \E g \in GameIds, n \in BatchSizes, v \in Vecs :
        /\ BatchFits(embeddings, n)
        /\ \E fail \in {NoFail} \cup [at : FailPoints(n), phase : FailPhases],
              commit_ok \in BOOLEAN :
            /\ fail # NoFail => commit_ok
            /\ LET r == create_embeddings_batch(embeddings, vec_embeddings,
                                                BatchRequests(g, n, v), fail, commit_ok)
               IN  /\ embeddings' = r.emb
                   /\ vec_embeddings' = r.vec
                   /\ out' = [op |-> "batch", args |-> <<g, n, v>>,
                              fail |-> fail, commit_ok |-> commit_ok,
                              ok |-> r.ok, ids |-> r.value]
    /\ UNCHANGED <<ck, em, uploadVars, concVars>>

StoreSearch ==
    /\ out = NoCall
    /\ \E g \in SearchGameIds, q \in Vecs, limit \in Limits, t \in Thresholds,
       rev \in BOOLEAN :
        LET request == [game_id |-> g, query_embedding |-> q, limit |-> limit,
                        similarity_threshold |-> t]
        IN  /\ out' = [op |-> "search", request |-> request,
                       results |-> similarity_search(embeddings, vec_embeddings, request, rev)]
            /\ UNCHANGED <<embeddings, vec_embeddings, ck, em, uploadVars, concVars>>

StoreReturn ==
    /\ out # NoCall
    /\ out' = NoCall
    /\ UNCHANGED <<embeddings, vec_embeddings, ck, em, uploadVars, concVars>>

StoreNext == StoreInsertBatch \/ StoreSearch \/ StoreReturn

SpecStore == Init /\ [][StoreNext]_vars

----------------------------------------------------------------------------
(* The chunker applied to texts built from sentences of chosen lengths *)

Repeat(c, n) == [i \in 1..n |-> c]

\* A sentence of len characters: "plain" is a capital, letters and a full
\* stop; "then" begins with the word Then; "open" has no closing full stop.
SentenceText(spec) ==
    IF spec.kind = "plain" THEN <<"A">> \o Repeat("a", spec.len - 2) \o <<".">>
    ELSE IF spec.kind = "then"
    THEN <<"T", "h", "e", "n", " ">> \o Repeat("a", spec.len - 6) \o <<".">>
    ELSE <<"A">> \o Repeat("a", spec.len - 1)

SentenceSpecs ==
    [len : {8, 120, 250, 400, 1600}, kind : {"plain"}]
    \cup [len : {250}, kind : {"then"}]
    \cup [len : {400, 1600}, kind : {"open"}]

Separators == { <<" ">>, <<" ", " ", "\n">> }

TextOf(input) ==
    Join([i \in 1..Len(input.sentences) |-> SentenceText(input.sentences[i])], input.sep)

ChunkInputs ==
    [sentences : UNION {[1..n -> SentenceSpecs] : n \in 0..MaxSentences}, sep : Separators]

\* A text arrives.
ChunkReceive ==
    /\ ck.pc = "idle"
    /\ \E input \in ChunkInputs : ck' = [pc |-> "received", input |-> input]
    /\ UNCHANGED <<storeVars, uploadVars, em, concVars>>

\* chunk_text runs on it.
ChunkText ==
    /\ ck.pc = "received"
    /\ ck' = [pc |-> "done", input |-> ck.input, chunks |-> chunk_text(TextOf(ck.input))]
    /\ UNCHANGED <<storeVars, uploadVars, em, concVars>>

ChunkNext == ChunkReceive \/ ChunkText

SpecChunk == Init /\ [][ChunkNext]_vars

----------------------------------------------------------------------------
(* embeddings.rs: Embedder::generate_embeddings *)

\* The embedding of the text at 0-based position index, for a service whose
\* vectors start at v.
EmbedVec(index, v) == (v + index) % (MaxVec + 1)

\* What the embedding endpoint may answer to a request for n texts: an
\* error, or a list of (index, embedding) items: complete and in order,
\* complete and in reverse order, or one item short.
ServiceResponses(n) ==
    {[ok |-> FALSE, data |-> <<>>]}
    \cup {[ok |-> TRUE, data |-> [k \in 1..n |-> [index |-> k - 1, embedding |-> EmbedVec(k - 1, v)]]]
            : v \in Vecs}
    \cup {[ok |-> TRUE, data |-> [k \in 1..n |-> [index |-> n - k, embedding |-> EmbedVec(n - k, v)]]]
            : v \in Vecs}
    \cup {[ok |-> TRUE, data |-> [k \in 1..(n - 1) |-> [index |-> k - 1, embedding |-> EmbedVec(k - 1, v)]]]
            : v \in Vecs}

RECURSIVE InsertByIndex(_, _)
\* d put into the sorted sequence after the items whose index is not greater
InsertByIndex(sorted, d) ==
    IF sorted = <<>> THEN <<d>>
    ELSE IF sorted[Len(sorted)].index <= d.index THEN Append(sorted, d)
    ELSE Append(InsertByIndex(SubSeq(sorted, 1, Len(sorted) - 1), d), sorted[Len(sorted)])

RECURSIVE SortByIndex(_)
\* data.sort_by_key(|d| d.index), a stable sort
SortByIndex(data) ==
    IF data = <<>> THEN <<>>
    ELSE InsertByIndex(SortByIndex(SubSeq(data, 1, Len(data) - 1)), data[Len(data)])

\* generate_embeddings returning the items in the order of the answer
GenerateEmbeddingsUnsorted(texts, response) ==
    IF texts = <<>> THEN [ok |-> TRUE, value |-> <<>>, outcome |-> "no_call"]
    ELSE IF ~response.ok THEN [ok |-> FALSE, value |-> <<>>, outcome |-> "service_error"]
    ELSE IF Len(response.data) # Len(texts)
    THEN [ok |-> FALSE, value |-> <<>>, outcome |-> "count_mismatch"]
    ELSE [ok |-> TRUE, value |-> [k \in 1..Len(response.data) |-> response.data[k].embedding],
          outcome |-> "ok"]

\* generate_embeddings sending the request for an empty list too
GenerateEmbeddingsAlwaysCalls(texts, response) ==
    IF ~response.ok THEN [ok |-> FALSE, value |-> <<>>, outcome |-> "service_error"]
    ELSE IF Len(response.data) # Len(texts)
    THEN [ok |-> FALSE, value |-> <<>>, outcome |-> "count_mismatch"]
    ELSE LET data == SortByIndex(response.data)
         IN  [ok |-> TRUE, value |-> [k \in 1..Len(data) |-> data[k].embedding],
              outcome |-> "ok"]

\* Embedder::generate_embeddings on texts, given the answer of the endpoint.
\* outcome tells how the call ended; no request is sent for an empty list.
generate_embeddings(texts, response) ==
    IF texts = <<>> THEN [ok |-> TRUE, value |-> <<>>, outcome |-> "no_call"]
    ELSE IF ~response.ok THEN [ok |-> FALSE, value |-> <<>>, outcome |-> "service_error"]
    ELSE IF Len(response.data) # Len(texts)
    THEN [ok |-> FALSE, value |-> <<>>, outcome |-> "count_mismatch"]
    ELSE LET data == SortByIndex(response.data)
         IN  [ok |-> TRUE, value |-> [k \in 1..Len(data) |-> data[k].embedding],
              outcome |-> "ok"]

----------------------------------------------------------------------------
(* generate_embeddings called on its own, with every answer of the endpoint *)

\* The orders in which the endpoint may list n items.
IndexOrders(n) ==
    {p \in [1..n -> 1..n] : \A i, j \in 1..n : p[i] = p[j] => i = j}

\* The answers to a request for n texts: an error, or m items, m within one
\* of n, that carry the indices 0..m-1 in some order, each with a vector.
EmbedderResponses(n) ==
    {[ok |-> FALSE, data |-> <<>>]}
    \cup UNION { { [ok |-> TRUE,
                    data |-> [k \in 1..m |-> [index |-> p[k] - 1, embedding |-> e[k]]]]
                   : p \in IndexOrders(m), e \in [1..m -> Vecs] }
                 : m \in Max(0, n - 1)..(n + 1) }

\* A call arrives: n texts, and the answer the endpoint will give.
EmbedRequest ==
    /\ em.pc = "idle"
    /\ \E n \in 0..MaxTexts :
        \E response \in EmbedderResponses(n) :
            em' = [pc |-> "called", texts |-> [i \in 1..n |-> <<"text", i>>],
                   response |-> response]
    /\ UNCHANGED <<storeVars, uploadVars, ck, concVars>>

\* generate_embeddings returns.
EmbedReturn ==
    /\ em.pc = "called"
    /\ em' = [pc |-> "done", texts |-> em.texts, response |-> em.response,
              result |-> generate_embeddings(em.texts, em.response)]
    /\ UNCHANGED <<storeVars, uploadVars, ck, concVars>>

EmbedNext == EmbedRequest \/ EmbedReturn

SpecEmbed == Init /\ [][EmbedNext]_vars

----------------------------------------------------------------------------
(* pdf.rs: validation and file names; db/games.rs: the games table *)

PDF_MAGIC == <<"%", "P", "D", "F">>
PDF_MAGIC_LEN == 4

\* validate_pdf_file accepting whatever begins with a percent sign
ValidateFirstByteOnly(file_bytes) ==
    Len(file_bytes) >= 1 /\ file_bytes[1] = PDF_MAGIC[1]

\* validate_pdf_file(file_bytes).is_ok()
validate_pdf_file(file_bytes) ==
    IF Len(file_bytes) < PDF_MAGIC_LEN THEN FALSE
    ELSE SubSeq(file_bytes, 1, PDF_MAGIC_LEN) = PDF_MAGIC

\* generate_pdf_filename under uploads/: the game id and the second of the
\* clock at which it is called.
generate_pdf_filename(game_id, now) == <<game_id, now>>

NewGame == [rules_text |-> None, rules_pdf_path |-> None]

\* conn.last_insert_rowid() after an INSERT INTO games or INTO house_rules:
\* one past the largest id of the table.
NextId(table) ==
    IF DOMAIN table = {} THEN 1
    ELSE (CHOOSE id \in DOMAIN table : \A other \in DOMAIN table : other <= id) + 1

\* get_game answering with an empty game when there is none
GetGameOrDefault(g, game_id) ==
    IF game_id \in DOMAIN g THEN Some(g[game_id]) ELSE Some(NewGame)

\* db::games::get_game
get_game(g, game_id) == IF game_id \in DOMAIN g THEN Some(g[game_id]) ELSE None

\* db::games::update_game_rules_text: the UPDATE changes the row of game_id
\* if there is one.
update_game_rules_text(g, game_id, rules_text, pdf_path) ==
    IF game_id \in DOMAIN g
    THEN [g EXCEPT ![game_id] = [rules_text |-> Some(rules_text), rules_pdf_path |-> pdf_path]]
    ELSE g

----------------------------------------------------------------------------
(* handlers/upload.rs: upload_rules_pdf, one action per step between the     *)
(* points at which other requests can run                                    *)

Bodies ==
    { <<>>, <<"%", "P", "D">>, <<"x", "P", "D", "F", "-">>, PDF_MAGIC,
      <<"%", "P", "D", "F", "-">> }

\* Texts pdf_extract may return: none, one sentence that makes one chunk,
\* four sentences that make two chunks.
ExtractedTexts ==
    { <<>>,
      TextOf([sentences |-> <<[len |-> 120, kind |-> "plain"]>>, sep |-> <<" ">>]),
      TextOf([sentences |-> <<[len |-> 400, kind |-> "plain"], [len |-> 400, kind |-> "plain"],
                              [len |-> 250, kind |-> "plain"], [len |-> 120, kind |-> "plain"]>>,
              sep |-> <<" ">>]) }

\* What the service answers in order and complete, with the vectors that
\* start at 0, or an error.
PlainResponses(n) ==
    {response \in ServiceResponses(n) :
        response.ok => /\ Len(response.data) = n
                       /\ \A k \in 1..n : response.data[k] =
                              [index |-> k - 1, embedding |-> EmbedVec(k - 1, 0)]}

\* The inputs and outcomes of the calls an upload makes: every one the
\* handler can meet.
AllInputs ==
    [game_ids |-> GameIds, bodies |-> Bodies, texts |-> ExtractedTexts,
     call_ok |-> BOOLEAN, any_response |-> TRUE]

\* The handler goes on from where it is, whatever it has answered.
RespondAndGoOn(u, response, failed_at) ==
    [u EXCEPT !.response = response, !.failed_at = failed_at,
              !.stages = Append(@, IF response = "ok" THEN "Persisted" ELSE "Failed")]

\* The handler returns: Ok(response) at the end, an error before it.
Respond(u, response, failed_at) ==
    [u EXCEPT !.pc = "responded", !.response = response, !.failed_at = failed_at,
              !.stages = Append(@, IF response = "ok" THEN "Persisted" ELSE "Failed")]

\* fs::remove_file(&file_path)
remove_file(fs, path) == fs \ {path[1]}

\* The request arrives and its body is validated (lines 39-51).
UploadValidateOn(inputs, r) ==
    /\ up[r].pc = "idle"
    /\ \E game_id \in inputs.game_ids, body \in inputs.bodies :
        LET u == [Idle EXCEPT !.game_id = game_id, !.body = body,
                              !.stages = <<"Received">>]
        IN  up' = [up EXCEPT ![r] =
                IF body = <<>> \/ ~validate_pdf_file(body)
                THEN Respond(u, "bad_request", "validate")
                ELSE [u EXCEPT !.pc = "get_game",
                               !.stages = Append(@, "Validated")]]
    /\ UNCHANGED <<games, files, clock, embeddings, vec_embeddings, out, ck, em, house_rules, concVars>>

\* An upload arrives while the store holds fewer than MaxUploadRows rows.
UploadValidate(r) ==
    /\ Len(embeddings) < MaxUploadRows
    /\ UploadValidateOn(AllInputs, r)

\* get_game (lines 53-61): a database error, no such game, or the game.
UploadGetGameOn(inputs, r) ==
    /\ up[r].pc = "get_game"
    /\ \E db_ok \in inputs.call_ok :
        LET game == get_game(games, up[r].game_id)
        IN  up' = [up EXCEPT ![r] =
                IF ~db_ok THEN Respond(@, "internal_error", "get_game")
                ELSE IF game = None THEN Respond(@, "not_found", "get_game")
                ELSE [@ EXCEPT !.pc = "save", !.game_before = game]]
    /\ UNCHANGED <<games, files, clock, embeddings, vec_embeddings, out, ck, em, house_rules, concVars>>

UploadGetGame(r) == UploadGetGameOn(AllInputs, r)

\* The file name is made from the clock and the body written (lines 63-76).
\* The clock may have advanced since it was last read.
UploadSaveFileOn(inputs, r) ==
    /\ up[r].pc = "save"
    /\ \E now \in clock..MaxClock, write_ok \in inputs.call_ok :
        LET file_path == generate_pdf_filename(up[r].game_id, now)
        IN  /\ clock' = now
            /\ IF write_ok
               THEN /\ files' = files \cup {file_path}
                    /\ up' = [up EXCEPT ![r] = [@ EXCEPT !.pc = "process",
                                                         !.file_path = Some(file_path)]]
               ELSE /\ files' = files
                    /\ up' = [up EXCEPT ![r] = Respond(@, "internal_error", "save")]
    /\ UNCHANGED <<games, embeddings, vec_embeddings, out, ck, em, house_rules, concVars>>

UploadSaveFile(r) == UploadSaveFileOn(AllInputs, r)

\* process_pdf (lines 78-83): the text is extracted from the saved file and
\* chunked; on failure the file is removed.
UploadProcessPdfOn(inputs, r) ==
    /\ up[r].pc = "process"
    /\ \E extract_ok \in inputs.call_ok, text \in inputs.texts :
        IF extract_ok /\ up[r].file_path[1] \in files
        THEN /\ up' = [up EXCEPT ![r] = [@ EXCEPT !.pc = "embed", !.full_text = Some(text),
                                                  !.chunks = chunk_text(text),
                                                  !.stages = @ \o <<"TextExtracted", "Chunked">>]]
             /\ files' = files
        ELSE /\ up' = [up EXCEPT ![r] = Respond(@, "internal_error", "extract")]
             /\ files' = remove_file(files, up[r].file_path)
    /\ UNCHANGED <<games, clock, embeddings, vec_embeddings, out, ck, em, house_rules, concVars>>

UploadProcessPdf(r) == UploadProcessPdfOn(AllInputs, r)

\* What the handler does with the result of generate_embeddings, without
\* the early return on Err.
OnEmbeddingsIgnoreError(u, fs, result) ==
    [up |-> [u EXCEPT !.pc = "update", !.vectors = result.value,
                      !.embed_outcome = result.outcome,
                      !.stages = Append(@, "Embedded")],
     files |-> fs]

\* What the handler does with the result of generate_embeddings (lines
\* 86-93): on Err the file is removed and the error returned.
OnEmbeddings(u, fs, result) ==
    IF result.ok
    THEN [up |-> [u EXCEPT !.pc = "update", !.vectors = result.value,
                           !.embed_outcome = result.outcome,
                           !.stages = Append(@, "Embedded")],
          files |-> fs]
    ELSE [up |-> [Respond(u, "internal_error", "embed") EXCEPT
                           !.embed_outcome = result.outcome],
          files |-> remove_file(fs, u.file_path)]

\* generate_embeddings for all chunks (lines 85-93).
UploadGenerateEmbeddingsOn(inputs, r) ==
    /\ up[r].pc = "embed"
    /\ \E response \in IF inputs.any_response
                       THEN ServiceResponses(Len(up[r].chunks))
                       ELSE {x \in PlainResponses(Len(up[r].chunks)) :
                                x.ok \in inputs.call_ok} :
        LET next == OnEmbeddings(up[r], files,
                                 generate_embeddings(up[r].chunks, response))
        IN  /\ up' = [up EXCEPT ![r] = next.up]
            /\ files' = next.files
    /\ UNCHANGED <<games, clock, embeddings, vec_embeddings, out, ck, em, house_rules, concVars>>

UploadGenerateEmbeddings(r) == UploadGenerateEmbeddingsOn(AllInputs, r)

\* The requests built with chunk indices that start at 1
EmbeddingRequestsFromOne(u) ==
    [i \in 1..Min(Len(u.chunks), Len(u.vectors)) |->
        [game_id |-> u.game_id, chunk_text |-> u.chunks[i], chunk_index |-> i,
         embedding |-> u.vectors[i], source_type |-> "rules_pdf", source_id |-> 0]]

\* The requests of lines 96-120: chunk i of the text with embedding i.
EmbeddingRequests(u) ==
    [i \in 1..Min(Len(u.chunks), Len(u.vectors)) |->
        [game_id |-> u.game_id, chunk_text |-> u.chunks[i], chunk_index |-> i - 1,
         embedding |-> u.vectors[i], source_type |-> "rules_pdf", source_id |-> 0]]

\* update_game_rules_text (lines 122-133): on Err the file is removed.
UploadUpdateGameOn(inputs, r) ==
    /\ up[r].pc = "update"
    /\ \E db_ok \in inputs.call_ok :
        IF db_ok
        THEN /\ games' = update_game_rules_text(games, up[r].game_id,
                                                up[r].full_text[1], up[r].file_path)
             /\ files' = files
             /\ up' = [up EXCEPT ![r] = [@ EXCEPT !.pc = "insert"]]
        ELSE /\ games' = games
             /\ files' = remove_file(files, up[r].file_path)
             /\ up' = [up EXCEPT ![r] = Respond(@, "internal_error", "update")]
    /\ UNCHANGED <<clock, embeddings, vec_embeddings, out, ck, em, house_rules, concVars>>

UploadUpdateGame(r) == UploadUpdateGameOn(AllInputs, r)

\* create_embeddings_batch (lines 135-141), then the response (143-155): on
\* Err the file is removed.
UploadInsertBatchOn(inputs, r) ==
    /\ up[r].pc = "insert"
    /\ LET requests == EmbeddingRequests(up[r])
       IN  \E fail \in {NoFail} \cup [at : {1, Len(requests)} \ {0}, phase : FailPhases],
              commit_ok \in inputs.call_ok :
            /\ fail # NoFail => commit_ok /\ FALSE \in inputs.call_ok
            /\ LET result == create_embeddings_batch(embeddings, vec_embeddings,
                                                     requests, fail, commit_ok)
               IN  /\ embeddings' = result.emb
                   /\ vec_embeddings' = result.vec
                   /\ files' = IF result.ok THEN files
                               ELSE remove_file(files, up[r].file_path)
                   /\ up' = [up EXCEPT ![r] =
                           IF result.ok
                           THEN [Respond(@, "ok", "none") EXCEPT
                                     !.batch_called = TRUE, !.inserted = result.value]
                           ELSE [Respond(@, "internal_error", "insert") EXCEPT
                                     !.batch_called = TRUE]]
    /\ UNCHANGED <<games, clock, out, ck, em, house_rules, concVars>>

UploadInsertBatch(r) == UploadInsertBatchOn(AllInputs, r)

\* The response is sent; the task of the request ends.
UploadReturn(r) ==
    /\ up[r].pc = "responded"
    /\ up' = [up EXCEPT ![r] = Idle]
    /\ UNCHANGED <<games, files, clock, embeddings, vec_embeddings, out, ck, em, house_rules, concVars>>

\* POST /api/games: the games table gives the new game the next id.
CreateGame ==
    /\ NextId(games) <= MaxGames
    /\ games' = [id \in DOMAIN games \cup {NextId(games)} |->
                    IF id \in DOMAIN games THEN games[id] ELSE NewGame]
    /\ UNCHANGED <<files, clock, up, embeddings, vec_embeddings, out, ck, em, house_rules, concVars>>

UploadNext ==
    \/ \E r \in Uploads :
        \/ UploadValidate(r)
        \/ UploadGetGame(r)
        \/ UploadSaveFile(r)
        \/ UploadProcessPdf(r)
        \/ UploadGenerateEmbeddings(r)
        \/ UploadUpdateGame(r)
        \/ UploadInsertBatch(r)
        \/ UploadReturn(r)
    \/ CreateGame

SpecUpload == Init /\ [][UploadNext]_vars

----------------------------------------------------------------------------
(* Properties of the store *)

\* C1: create_embeddings_batch is all-or-nothing.  A call that returns an
\* error leaves both tables exactly as they were before it, wherever the
\* failing statement was; a call that succeeds appends one chunk row and one
\* vector row per item and returns their ids in input order.
C1_BatchAllOrNothing ==
    [][ out'.op = "batch" =>
          IF out'.ok
          THEN LET reqs == BatchRequests(out'.args[1], out'.args[2], out'.args[3])
                   n == Len(reqs)
               IN  /\ Len(out'.ids) = n
                   /\ embeddings' = embeddings \o
                         [i \in 1..n |-> ChunkRow(out'.ids[i], reqs[i])]
                   /\ vec_embeddings' = vec_embeddings \o
                         [i \in 1..n |-> VecRow(out'.ids[i], reqs[i])]
                   /\ \A i \in 1..n : out'.ids[i] \notin VecRowids(vec_embeddings)
          ELSE /\ embeddings' = embeddings
               /\ vec_embeddings' = vec_embeddings
               /\ out'.ids = <<>> ]_vars

\* A large batch whose last item failed at its vector row, after every
\* other row of the batch was written, has returned its error.
C1_Witness ==
    /\ out.op = "batch"
    /\ ~out.ok
    /\ out.args[2] = BigBatch
    /\ out.fail = [at |-> BigBatch, phase |-> "vec"]

SimilarityOf(vec, id, q) ==
    LET r == CHOOSE x \in Range(vec) : x.rowid = id
    IN  One - Distance(q, r.embedding_vector)

\* The chunks of the request's game that have a vector and whose similarity
\* to the query is at least the threshold.
Qualifying(emb, vec, request) ==
    SelectSeq(emb, LAMBDA e :
        /\ e.game_id = request.game_id
        /\ e.id \in VecRowids(vec)
        /\ SimilarityOf(vec, e.id, request.query_embedding) >= request.similarity_threshold)

RECURSIVE SortedDescending(_, _)
\* The values f[x], x in S, in descending order.
SortedDescending(S, f) ==
    IF S = {} THEN <<>>
    ELSE LET top == CHOOSE x \in S : \A y \in S : f[x] >= f[y]
         IN  <<f[top]>> \o SortedDescending(S \ {top}, f)

\* The scores an exhaustive scan returns: every qualifying chunk scored,
\* sorted descending, truncated to limit.
ExhaustiveScores(emb, vec, request) ==
    LET qual == Qualifying(emb, vec, request)
        score == [i \in 1..Len(qual) |->
                    AsF32(SimilarityOf(vec, qual[i].id, request.query_embedding))]
        all == SortedDescending(1..Len(qual), score)
    IN  SubSeq(all, 1, Min(request.limit, Len(all)))

ResultScores(results) == [i \in 1..Len(results) |-> results[i].similarity_score]

\* C5: for limit >= 1 the index-assisted search returns what the exhaustive
\* scan returns: the scores of the top-limit qualifying chunks of the game,
\* each result being a distinct qualifying chunk of that game.
C5_IndexEqualsExhaustive ==
    (out.op = "search" /\ out.request.limit >= 1) =>
        /\ ResultScores(out.results) =
              ExhaustiveScores(embeddings, vec_embeddings, out.request)
        /\ \A i \in 1..Len(out.results) :
              \E e \in Range(Qualifying(embeddings, vec_embeddings, out.request)) :
                  e.id = out.results[i].id

\* C6: a search returns at most limit results, limit 0 included, each with a
\* score of at least the threshold.
C6_AtMostLimitAboveThreshold ==
    out.op = "search" =>
        /\ Len(out.results) <= out.request.limit
        /\ \A i \in 1..Len(out.results) :
              out.results[i].similarity_score >= out.request.similarity_threshold

\* C7: results are sorted by descending score, and results of equal score
\* are in insertion (rowid) order.
C7_SortedStableTies ==
    out.op = "search" =>
        \A i, j \in 1..Len(out.results) :
            i < j =>
                /\ out.results[i].similarity_score >= out.results[j].similarity_score
                /\ out.results[i].similarity_score = out.results[j].similarity_score
                     => out.results[i].id < out.results[j].id

GameOf(emb, id) == (CHOOSE e \in Range(emb) : e.id = id).game_id

\* C8: every chunk a search returns is stored under the request's game_id,
\* and a game that owns no chunk gets the empty list, whatever the other
\* games have stored.
C8_OnlyOwnGame ==
    out.op = "search" =>
        /\ \A i \in 1..Len(out.results) :
              /\ \E e \in Range(embeddings) : e.id = out.results[i].id
              /\ GameOf(embeddings, out.results[i].id) = out.request.game_id
        /\ (\A e \in Range(embeddings) : e.game_id # out.request.game_id)
              => out.results = <<>>

\* A search that returned a chunk of its game although another game holds a
\* chunk nearer to the query.
C8_Witness ==
    /\ out.op = "search"
    /\ out.results # <<>>
    /\ \E e \in Range(embeddings) :
          /\ e.game_id # out.request.game_id
          /\ SimilarityOf(vec_embeddings, e.id, out.request.query_embedding)
               > SimilarityOf(vec_embeddings, out.results[1].id,
                              out.request.query_embedding)

----------------------------------------------------------------------------
(* Claims about the chunker *)

HasSentenceBoundary(input) ==
    \E i \in 1..Len(input.sentences) : input.sentences[i].kind # "open"

\* C9: for every non-empty text that contains sentence boundaries, every
\* chunk chunk_text emits, except possibly the last, is between
\* MIN_CHUNK_SIZE and MAX_CHUNK_SIZE characters long, whatever the lengths of
\* the sentences.
C9_NonFinalChunksWithinBounds ==
    (ck.pc = "done" /\ ck.input.sentences # <<>> /\ HasSentenceBoundary(ck.input))
        => \A i \in 1..(Len(ck.chunks) - 1) :
               /\ Len(ck.chunks[i]) >= MIN_CHUNK_SIZE
               /\ Len(ck.chunks[i]) <= MAX_CHUNK_SIZE

\* C10: a text without sentence-ending punctuation that is longer than
\* MAX_CHUNK_SIZE is still split: more than one chunk comes out and none is
\* longer than MAX_CHUNK_SIZE.
C10_UnpunctuatedTextIsSplit ==
    (/\ ck.pc = "done"
     /\ ~HasSentenceBoundary(ck.input)
     /\ Len(TextOf(ck.input)) > MAX_CHUNK_SIZE)
        => /\ Len(ck.chunks) > 1
           /\ \A i \in 1..Len(ck.chunks) : Len(ck.chunks[i]) <= MAX_CHUNK_SIZE

----------------------------------------------------------------------------
(* Claims about upload_rules_pdf *)

\* C2: when an upload fails after its file was saved, every side effect it
\* made is undone by the time the error is returned: the file is gone, no
\* chunk of the upload is stored, and the game's rules_text and
\* rules_pdf_path are what they were before the upload.
C2_FailureUndoesSideEffects ==
    \A r \in Uploads :
        (up[r].pc = "responded" /\ up[r].response # "ok" /\ up[r].file_path # None)
            => /\ up[r].file_path[1] \notin files
               /\ up[r].inserted = <<>>
               /\ games[up[r].game_id] = up[r].game_before[1]

EmbeddingFailures == {"service_error", "count_mismatch"}

\* C3: when the batch embedding call of an upload fails, by a service error
\* or a count mismatch, the upload ends with an error there: insert_batch is
\* never called for it and none of its chunks or vectors is inserted.
C3_EmbeddingFailurePersistsNothing ==
    \A r \in Uploads :
        up[r].embed_outcome \in EmbeddingFailures
            => /\ up[r].pc = "responded"
               /\ up[r].response = "internal_error"
               /\ up[r].failed_at = "embed"
               /\ ~up[r].batch_called
               /\ up[r].inserted = <<>>

\* An upload with chunks was answered one embedding short and has ended.
C3_Witness ==
    \E r \in Uploads :
        /\ up[r].embed_outcome = "count_mismatch"
        /\ up[r].chunks # <<>>
        /\ up[r].pc = "responded"
        /\ up[r].file_path[1] \notin files

\* The bodies the handler must refuse: empty, shorter than four bytes, or
\* not beginning with %PDF.
BadBody(body) ==
    \/ body = <<>>
    \/ Len(body) < 4
    \/ \E i \in 1..4 : body[i] # <<"%", "P", "D", "F">>[i]

\* C4: an upload whose body is empty, shorter than 4 bytes or does not start
\* with %PDF is answered bad_request before any side effect: it reads no
\* game, writes no file, makes no embedding call and inserts nothing; a body
\* of at least 4 bytes that starts with %PDF passes validation.
C4_BadBodyRejectedFirst ==
    \A r \in Uploads :
        up[r].pc # "idle"
            => IF BadBody(up[r].body)
               THEN /\ up[r].pc = "responded"
                    /\ up[r].response = "bad_request"
                    /\ up[r].game_before = None
                    /\ up[r].file_path = None
                    /\ up[r].embed_outcome = "none"
                    /\ ~up[r].batch_called
                    /\ up[r].inserted = <<>>
               ELSE up[r].failed_at # "validate" /\ up[r].response # "bad_request"

\* A body of three bytes, %PD, has been refused while a game exists.
C4_Witness ==
    \E r \in Uploads :
        /\ up[r].pc = "responded"
        /\ up[r].response = "bad_request"
        /\ Len(up[r].body) = 3
        /\ up[r].game_id \in DOMAIN games

\* The sentences of the input as they stand in the normalized text.
InputSentences(input) ==
    [i \in 1..Len(input.sentences) |-> SentenceText(input.sentences[i])]

\* C11: the chunks chunk_text emits cover the whole normalized text: every
\* sentence of the text is found in at least one chunk; none is dropped
\* because it is short or because the last chunk is small.
C11_ChunksCoverText ==
    ck.pc = "done"
        => \A i \in 1..Len(ck.input.sentences) :
               \E k \in 1..Len(ck.chunks) :
                   contains(ck.chunks[k], InputSentences(ck.input)[i])

\* The length of the last n sentences of buffer joined by single spaces.
JoinedLength(buffer, n) ==
    Len(Join(SubSeq(buffer, Len(buffer) - n + 1, Len(buffer)), <<" ">>))

\* The longest run of trailing sentences of buffer whose joined length is at
\* most CHUNK_OVERLAP.
LongestTrailingRun(buffer) ==
    LET fits == {n \in 0..Len(buffer) : JoinedLength(buffer, n) <= CHUNK_OVERLAP}
        n == CHOOSE m \in fits : \A o \in fits : o <= m
    IN  SubSeq(buffer, Len(buffer) - n + 1, Len(buffer))

RECURSIVE OverlapAfter(_, _)
\* The sentences chunk k hands to chunk k + 1: the longest trailing run of
\* the sentences chunk k added to what it was itself handed by chunk k - 1.
OverlapAfter(chunks, k) ==
    IF k = 0 THEN <<>>
    ELSE LET sentences == split_into_sentences(chunks[k])
             buffer == SubSeq(sentences, Len(OverlapAfter(chunks, k - 1)) + 1, Len(sentences))
         IN  LongestTrailingRun(buffer)

\* C12: whenever chunk_text closes a chunk, the next chunk opens with the
\* overlap: the longest run of trailing sentences of the closed chunk's
\* sentence buffer whose length, joined by single spaces, is at most
\* CHUNK_OVERLAP, in their original order.
C12_NextChunkOpensWithOverlap ==
    ck.pc = "done"
        => \A k \in 1..(Len(ck.chunks) - 1) :
               LET overlap == OverlapAfter(ck.chunks, k)
                   next == split_into_sentences(ck.chunks[k + 1])
               IN  /\ Len(next) >= Len(overlap)
                   /\ SubSeq(next, 1, Len(overlap)) = overlap

\* Two sentences that fit the overlap together were handed on, and the next
\* chunk goes on after them.
C12_Witness ==
    /\ ck.pc = "done"
    /\ Len(ck.chunks) >= 2
    /\ Len(OverlapAfter(ck.chunks, 1)) = 2
    /\ Len(split_into_sentences(ck.chunks[2])) > 2

----------------------------------------------------------------------------
(* Claims about generate_embeddings *)

\* The vector the answer carries for the text at 0-based position index.
ProducedFor(response, index) ==
    {response.data[k].embedding :
        k \in {j \in 1..Len(response.data) : response.data[j].index = index}}

\* C13: for a non-empty batch, a successful generate_embeddings returns
\* exactly len(batch) vectors, the i-th being the one the service produced
\* for the i-th text; an answer with another number of items is a failure,
\* never a shortened or padded result.
C13_ExactCountInputOrder ==
    (em.pc = "done" /\ em.texts # <<>>)
        => /\ em.result.ok
                => /\ Len(em.result.value) = Len(em.texts)
                   /\ \A i \in 1..Len(em.texts) :
                          ProducedFor(em.response, i - 1) = {em.result.value[i]}
           /\ (em.response.ok /\ Len(em.response.data) # Len(em.texts))
                => ~em.result.ok /\ em.result.value = <<>>

\* Three texts were answered with their items in another order and with
\* vectors that differ, and the call succeeded.
C13_Witness ==
    /\ em.pc = "done"
    /\ Len(em.texts) = 3
    /\ em.result.ok
    /\ em.response.data[1].index # 0
    /\ em.response.data[1].embedding # em.response.data[2].embedding

\* C14: generate_embeddings on an empty list returns an empty result
\* successfully and sends no request to the embedding service.
C14_EmptyInputNoCall ==
    (em.pc = "done" /\ em.texts = <<>>)
        => /\ em.result.ok
           /\ em.result.value = <<>>
           /\ em.result.outcome = "no_call"

\* The empty list was embedded while the service would have answered with
\* an error.
C14_Witness ==
    /\ em.pc = "done"
    /\ em.texts = <<>>
    /\ ~em.response.ok
    /\ em.result.ok

RowOf(emb, id) == CHOOSE row \in Range(emb) : row.id = id
VecOf(vec, id) == CHOOSE row \in Range(vec) : row.rowid = id

\* C15: a successful ingestion of n chunks stores them under the indices
\* 0..n-1 in chunker output order, chunk i with the vector returned for
\* chunk i, and in rows whose ids increase with the index.
C15_IndicesInChunkOrder ==
    \A r \in Uploads :
        (up[r].pc = "responded" /\ up[r].response = "ok")
            => LET ids == up[r].inserted
               IN  /\ Len(ids) = Len(up[r].chunks)
                   /\ \A j \in 1..Len(ids) :
                          /\ \E row \in Range(embeddings) : row.id = ids[j]
                          /\ \E row \in Range(vec_embeddings) : row.rowid = ids[j]
                          /\ RowOf(embeddings, ids[j]).chunk_index = j - 1
                          /\ RowOf(embeddings, ids[j]).chunk_text = up[r].chunks[j]
                          /\ RowOf(embeddings, ids[j]).game_id = up[r].game_id
                          /\ VecOf(vec_embeddings, ids[j]).embedding_vector = up[r].vectors[j]
                          /\ j < Len(ids) => ids[j] < ids[j + 1]

\* An upload of two chunks with different vectors has been stored.
C15_Witness ==
    \E r \in Uploads :
        /\ up[r].pc = "responded"
        /\ up[r].response = "ok"
        /\ Len(up[r].inserted) = 2
        /\ up[r].vectors[1] # up[r].vectors[2]

----------------------------------------------------------------------------
(* db/games.rs, db/house_rules.rs, db/embeddings.rs: rows removed *)

MaxHouseRules == 2   \* house rules 1..MaxHouseRules
MaxRowid == 2        \* chunk ids given out while owners are removed

HouseRuleIds == 1..MaxHouseRules
SourceFilters == {None, Some("rules_pdf"), Some("house_rule")}

\* The row ids left in a table once id is deleted from it.
DeleteRow(table, id) == [other \in DOMAIN table \ {id} |-> table[other]]

\* What the schema does to the embeddings table when a games row goes: the
\* chunks of that game go with it.
OnDeleteGameKeepChunks(emb, game_id) == emb

OnDeleteGame(emb, game_id) ==
    SelectSeq(emb, LAMBDA row : row.game_id # game_id)

\* What the schema does to the embeddings table when a house_rules row
\* goes: the chunks made from that house rule go with it.
OnDeleteHouseRule(emb, house_rule_id) ==
    SelectSeq(emb, LAMBDA row :
        ~(row.source_type = "house_rule" /\ row.source_id = house_rule_id))

\* DELETE FROM games WHERE id = ?; Ok(rows_affected > 0)
delete_game(g, emb, game_id) ==
    IF game_id \in DOMAIN g
    THEN [games |-> DeleteRow(g, game_id), emb |-> OnDeleteGame(emb, game_id),
          value |-> TRUE]
    ELSE [games |-> g, emb |-> emb, value |-> FALSE]

\* DELETE FROM house_rules WHERE id = ?; Ok(rows_affected > 0)
delete_house_rule(hr, emb, house_rule_id) ==
    IF house_rule_id \in DOMAIN hr
    THEN [house_rules |-> DeleteRow(hr, house_rule_id),
          emb |-> OnDeleteHouseRule(emb, house_rule_id), value |-> TRUE]
    ELSE [house_rules |-> hr, emb |-> emb, value |-> FALSE]

\* create_house_rule: an error when the game does not exist, else a new row.
create_house_rule(hr, g, game_id) ==
    IF game_id \notin DOMAIN g THEN [house_rules |-> hr, ok |-> FALSE, value |-> 0]
    ELSE [house_rules |-> [id \in DOMAIN hr \cup {NextId(hr)} |->
                              IF id \in DOMAIN hr THEN hr[id] ELSE [game_id |-> game_id]],
          ok |-> TRUE, value |-> NextId(hr)]

\* create_embedding: one chunk and its vector written in one transaction.
create_embedding(emb, vec, request, fail, commit_ok) ==
    WithTransaction(emb, vec, BatchLoop(emb, vec, <<>>, <<request>>, 1, fail), commit_ok)

\* The chunk of a rules document of game g, or of house rule h of game g.
ChunkRequest(g, source_type, source_id, v) ==
    [game_id |-> g, chunk_text |-> <<g, 0>>, chunk_index |-> 0, embedding |-> v,
     source_type |-> source_type, source_id |-> source_id]

\* The sources a new chunk of game g can have: the rules document, or a
\* house rule of that game.
SourcesOf(hr, g) ==
    {[type |-> "rules_pdf", id |-> 0]}
        \cup {[type |-> "house_rule", id |-> h] : h \in {x \in DOMAIN hr : hr[x].game_id = g}}

DeleteCreateHouseRule ==
    /\ out = NoCall
    /\ NextId(house_rules) <= MaxHouseRules
    /\ \E g \in GameIds :
        LET r == create_house_rule(house_rules, games, g)
        IN  /\ house_rules' = r.house_rules
            /\ out' = [op |-> "create_house_rule", game_id |-> g, ok |-> r.ok,
                       value |-> r.value]
    /\ UNCHANGED <<embeddings, vec_embeddings, ck, em, games, files, clock, up, concVars>>

\* A chunk is written for a game that exists; its vector plays no part in
\* the removals, so one vector is used.
DeleteCreateEmbedding ==
    /\ out = NoCall
    /\ NewRowid(embeddings) <= MaxRowid
    /\ \E g \in DOMAIN games, v \in {0} :
       \E source \in SourcesOf(house_rules, g) :
       \E fail \in {NoFail} \cup [at : {1}, phase : FailPhases], commit_ok \in BOOLEAN :
        /\ fail # NoFail => commit_ok
        /\ LET r == create_embedding(embeddings, vec_embeddings,
                                     ChunkRequest(g, source.type, source.id, v),
                                     fail, commit_ok)
           IN  /\ embeddings' = r.emb
               /\ vec_embeddings' = r.vec
               /\ out' = [op |-> "create_embedding", game_id |-> g, ok |-> r.ok,
                          value |-> r.value]
    /\ UNCHANGED <<ck, em, uploadVars, concVars>>

DeleteGame ==
    /\ out = NoCall
    /\ \E g \in GameIds :
        LET r == delete_game(games, embeddings, g)
        IN  /\ games' = r.games
            /\ embeddings' = r.emb
            /\ out' = [op |-> "delete_game", game_id |-> g, ok |-> TRUE,
                       value |-> r.value,
                       removed |-> Len(embeddings) - Len(r.emb)]
    /\ UNCHANGED <<vec_embeddings, ck, em, files, clock, up, house_rules, concVars>>

DeleteHouseRule ==
    /\ out = NoCall
    /\ \E h \in HouseRuleIds :
        LET r == delete_house_rule(house_rules, embeddings, h)
        IN  /\ house_rules' = r.house_rules
            /\ embeddings' = r.emb
            /\ out' = [op |-> "delete_house_rule", house_rule_id |-> h, ok |-> TRUE,
                       value |-> r.value,
                       removed |-> Len(embeddings) - Len(r.emb)]
    /\ UNCHANGED <<vec_embeddings, ck, em, games, files, clock, up, concVars>>

\* The rows a DELETE FROM embeddings WHERE game_id = ? [AND source_type = ?]
\* selects.
DeleteSelects(row, game_id, source_type) ==
    /\ row.game_id = game_id
    /\ source_type # None => row.source_type = source_type[1]

DeleteEmbeddingsIgnoringFilter(emb, game_id, source_type) ==
    [emb |-> SelectSeq(emb, LAMBDA row : ~DeleteSelects(row, game_id, None)),
     value |-> Len(SelectSeq(emb, LAMBDA row : DeleteSelects(row, game_id, None)))]

\* delete_embeddings_for_game: the rows selected leave the embeddings table
\* and rows_affected is returned.
delete_embeddings_for_game(emb, game_id, source_type) ==
    [emb |-> SelectSeq(emb, LAMBDA row : ~DeleteSelects(row, game_id, source_type)),
     value |-> Len(SelectSeq(emb, LAMBDA row : DeleteSelects(row, game_id, source_type)))]

DeleteEmbeddingsForGame ==
    /\ out = NoCall
    /\ \E g \in SearchGameIds, source_type \in SourceFilters :
        LET r == delete_embeddings_for_game(embeddings, g, source_type)
        IN  /\ embeddings' = r.emb
            /\ out' = [op |-> "delete_embeddings_for_game", game_id |-> g,
                       source_type |-> source_type, before |-> embeddings,
                       ok |-> TRUE, value |-> r.value]
    /\ UNCHANGED <<vec_embeddings, ck, em, uploadVars, concVars>>

\* UPDATE games SET rules_pdf_path = NULL, rules_text = NULL WHERE id = ?
ClearRules(g, game_id) ==
    IF game_id \in DOMAIN g THEN [g EXCEPT ![game_id] = NewGame] ELSE g

\* DELETE /api/games/{id}/rules, first statement: the path of the game's
\* document is read; a game that does not exist is answered with not found.
DeleteRulesGetPath ==
    /\ out = NoCall
    /\ \E g \in SearchGameIds :
        out' = IF g \in DOMAIN games
               THEN [op |-> "delete_rules", pc |-> "delete_embeddings", game_id |-> g,
                     pdf_path |-> games[g].rules_pdf_path, before |-> <<>>,
                     embeddings_deleted |-> 0, file_deleted |-> FALSE,
                     response |-> "none"]
               ELSE [op |-> "delete_rules", pc |-> "done", game_id |-> g,
                     pdf_path |-> None, before |-> <<>>,
                     embeddings_deleted |-> 0, file_deleted |-> FALSE,
                     response |-> "not_found"]
    /\ UNCHANGED <<embeddings, vec_embeddings, ck, em, uploadVars, concVars>>

DeleteRulesEmbeddings ==
    /\ out # NoCall /\ out.op = "delete_rules" /\ out.pc = "delete_embeddings"
    /\ LET r == delete_embeddings_for_game(embeddings, out.game_id, Some("rules_pdf"))
       IN  /\ embeddings' = r.emb
           /\ out' = [out EXCEPT !.pc = "update_game", !.before = embeddings,
                                 !.embeddings_deleted = r.value]
    /\ UNCHANGED <<vec_embeddings, ck, em, uploadVars, concVars>>

DeleteRulesUpdateGame ==
    /\ out # NoCall /\ out.op = "delete_rules" /\ out.pc = "update_game"
    /\ games' = ClearRules(games, out.game_id)
    /\ out' = [out EXCEPT !.pc = "remove_file"]
    /\ UNCHANGED <<embeddings, vec_embeddings, ck, em, files, clock, up, house_rules, concVars>>

\* The file is removed when the path read at the start names one that exists.
DeleteRulesRemoveFile ==
    /\ out # NoCall /\ out.op = "delete_rules" /\ out.pc = "remove_file"
    /\ LET exists == out.pdf_path # None /\ out.pdf_path[1] \in files
       IN  /\ files' = IF exists THEN remove_file(files, out.pdf_path) ELSE files
           /\ out' = [out EXCEPT !.pc = "done", !.file_deleted = exists,
                                 !.response = "ok"]
    /\ UNCHANGED <<embeddings, vec_embeddings, ck, em, games, clock, up, house_rules, concVars>>

\* The caller takes the result of the call.
DeleteReturn ==
    /\ out # NoCall
    /\ out.op = "delete_rules" => out.pc = "done"
    /\ out' = NoCall
    /\ UNCHANGED <<embeddings, vec_embeddings, ck, em, uploadVars, concVars>>

DeleteNext ==
    \/ CreateGame
    \/ DeleteCreateHouseRule
    \/ DeleteCreateEmbedding
    \/ DeleteGame
    \/ DeleteHouseRule
    \/ DeleteEmbeddingsForGame
    \/ DeleteRulesGetPath
    \/ DeleteRulesEmbeddings
    \/ DeleteRulesUpdateGame
    \/ DeleteRulesRemoveFile
    \/ DeleteReturn

SpecDelete == Init /\ [][DeleteNext]_vars

Selected(emb, game_id, source_type) ==
    {row \in Range(emb) :
        /\ row.game_id = game_id
        /\ source_type = None \/ row.source_type = source_type[1]}

\* emb holds exactly the rows of before that are not in gone, in the order
\* and with the content they had.
ExactlyRemoved(before, emb, gone) ==
    /\ Range(emb) = Range(before) \ gone
    /\ \A i, j \in 1..Len(emb) : i < j =>
          \E a, b \in 1..Len(before) : a < b /\ before[a] = emb[i] /\ before[b] = emb[j]
    /\ Len(emb) = Len(before) - Cardinality(gone)

\* C17: delete_embeddings_for_game(g, filter) removes exactly the chunks of
\* game g (of the filter's source type when one is given), returns how many
\* it removed and leaves every other chunk as it was; delete_rules(g)
\* removes exactly the rules_pdf chunks of g, so house-rule chunks of g and
\* the chunks of other games stay, and reports that number as
\* embeddings_deleted.
C17_DeleteByGameExact ==
    /\ (out # NoCall /\ out.op = "delete_embeddings_for_game") =>
          LET gone == Selected(out.before, out.game_id, out.source_type)
          IN  /\ ExactlyRemoved(out.before, embeddings, gone)
              /\ out.value = Cardinality(gone)
    /\ (out # NoCall /\ out.op = "delete_rules" /\ out.response = "ok") =>
          LET gone == Selected(out.before, out.game_id, Some("rules_pdf"))
          IN  /\ ExactlyRemoved(out.before, embeddings, gone)
              /\ out.embeddings_deleted = Cardinality(gone)

\* delete_rules has removed the document chunk of a game and a house-rule
\* chunk of the same game is still in the store.
C17_Witness ==
    /\ out # NoCall /\ out.op = "delete_rules" /\ out.response = "ok"
    /\ out.embeddings_deleted > 0
    /\ \E row \in Range(embeddings) :
          row.game_id = out.game_id /\ row.source_type = "house_rule"

----------------------------------------------------------------------------
(* db/mod.rs: requests sharing the one connection *)

\* self.conn.lock(): the caller goes on when no request holds the mutex.
MutexAlwaysFree(l) == TRUE

MutexFree(l) == l = 0

\* The holder of the mutex after a statement of a closure: the guard lives
\* until the closure has returned.
GuardPerStatement(r, returned) == 0

Guard(r, returned) == IF returned THEN 0 ELSE r

\* The rows the SELECT of get_embeddings_for_game returns: the chunks of
\* the game (of the source type when one is given) that have a vector.
ListedRows(emb, vec, game_id, source_type) ==
    {row \in Range(emb) :
        /\ row.game_id = game_id
        /\ source_type # None => row.source_type = source_type[1]
        /\ row.id \in VecRowids(vec)}

Ids(rows) == {row.id : row \in rows}

BatchLens == 1..MaxBatch

\* The chunks other requests are about to insert.
RECURSIVE Reserved(_, _)
Reserved(frames, S) ==
    IF S = {} THEN 0
    ELSE LET r == CHOOSE x \in S : TRUE
             n == IF frames[r].pc \in {"waiting", "inside"} /\ frames[r].op = "insert_batch"
                  THEN Len(frames[r].requests) - Len(frames[r].ids) ELSE 0
         IN  n + Reserved(frames, S \ {r})

\* A request arrives: a handler calls one operation of the store.
Frame(op, game_id, source_type, requests, fail, commit_ok) ==
    [pc |-> "waiting", op |-> op, game_id |-> game_id, source_type |-> source_type,
     requests |-> requests, i |-> 1, fail |-> fail, commit_ok |-> commit_ok,
     pre_emb |-> <<>>, pre_vec |-> <<>>, ids |-> <<>>, ok |-> TRUE,
     view |-> {}, value |-> <<>>]

ConcCallInsertBatch(r) ==
    /\ rq[r].pc = "idle"
    /\ \E g \in GameIds, n \in BatchLens :
        /\ NewRowid(embeddings) + Reserved(rq, Requests) + n - 1 <= MaxRowid
        /\ \E fail \in {NoFail} \cup [at : {n}, phase : FailPhases],
              commit_ok \in BOOLEAN :
            /\ fail # NoFail => commit_ok
            /\ rq' = [rq EXCEPT ![r] =
                        Frame("insert_batch", g, None, BatchRequests(g, n, 0),
                              fail, commit_ok)]
    /\ UNCHANGED <<embeddings, vec_embeddings, out, ck, em, uploadVars, lock>>

ConcCallRead(r) ==
    /\ rq[r].pc = "idle"
    /\ \E op \in {"get_embeddings_for_game", "similarity_search",
                  "delete_embeddings_for_game"}, g \in GameIds :
        rq' = [rq EXCEPT ![r] = Frame(op, g, None, <<>>, NoFail, TRUE)]
    /\ UNCHANGED <<embeddings, vec_embeddings, out, ck, em, uploadVars, lock>>

\* with_connection and with_transaction: the mutex is taken; a transaction
\* begins on the tables as they are.
ConcLock(r) ==
    /\ rq[r].pc = "waiting"
    /\ MutexFree(lock)
    /\ lock' = r
    /\ rq' = [rq EXCEPT ![r].pc = "inside", ![r].pre_emb = embeddings,
                        ![r].pre_vec = vec_embeddings]
    /\ UNCHANGED <<embeddings, vec_embeddings, out, ck, em, uploadVars>>

\* One turn of the loop of create_embeddings_batch inside the transaction;
\* an error drops the transaction, which rolls it back, and then the guard.
ConcInsert(r) ==
    /\ rq[r].pc = "inside" /\ rq[r].op = "insert_batch"
    /\ rq[r].i <= Len(rq[r].requests)
    /\ LET f == rq[r]
           step == BatchLoop(embeddings, vec_embeddings, f.ids,
                             SubSeq(f.requests, 1, f.i), f.i, f.fail)
           result == IF step.ok THEN step
                     ELSE WithTransaction(f.pre_emb, f.pre_vec, step, TRUE)
       IN  /\ embeddings' = result.emb
           /\ vec_embeddings' = result.vec
           /\ rq' = [rq EXCEPT ![r].i = f.i + 1, ![r].ids = result.value,
                               ![r].ok = result.ok,
                               ![r].pc = IF result.ok THEN "inside" ELSE "done"]
           /\ lock' = Guard(r, ~result.ok)
    /\ UNCHANGED <<out, ck, em, uploadVars>>

\* tx.commit()?: the rows stay, or the commit fails and they are rolled back.
ConcCommit(r) ==
    /\ rq[r].pc = "inside" /\ rq[r].op = "insert_batch"
    /\ rq[r].i > Len(rq[r].requests)
    /\ LET f == rq[r]
           result == WithTransaction(f.pre_emb, f.pre_vec,
                                     Outcome(embeddings, vec_embeddings, TRUE, f.ids),
                                     f.commit_ok)
       IN  /\ embeddings' = result.emb
           /\ vec_embeddings' = result.vec
           /\ rq' = [rq EXCEPT ![r].ids = result.value, ![r].ok = result.ok,
                               ![r].pc = "done"]
           /\ lock' = Guard(r, TRUE)
    /\ UNCHANGED <<out, ck, em, uploadVars>>

\* get_embeddings_for_game: one SELECT inside with_connection.
ConcList(r) ==
    /\ rq[r].pc = "inside" /\ rq[r].op = "get_embeddings_for_game"
    /\ LET rows == ListedRows(embeddings, vec_embeddings, rq[r].game_id,
                              rq[r].source_type)
       IN  rq' = [rq EXCEPT ![r].pc = "done", ![r].value = rows,
                            ![r].view = Ids(rows)]
    /\ lock' = Guard(r, TRUE)
    /\ UNCHANGED <<embeddings, vec_embeddings, out, ck, em, uploadVars>>

\* similarity_search: both queries inside one with_connection; view is the
\* set of chunk rows the connection showed it.
ConcSearch(r) ==
    /\ rq[r].pc = "inside" /\ rq[r].op = "similarity_search"
    /\ \E rev \in BOOLEAN :
        LET request == [game_id |-> rq[r].game_id, query_embedding |-> 0,
                        limit |-> default_search_limit,
                        similarity_threshold |-> default_similarity_threshold]
        IN  rq' = [rq EXCEPT ![r].pc = "done",
                     ![r].value = similarity_search(embeddings, vec_embeddings,
                                                    request, rev),
                     ![r].view = Ids(Range(embeddings))]
    /\ lock' = Guard(r, TRUE)
    /\ UNCHANGED <<embeddings, vec_embeddings, out, ck, em, uploadVars>>

\* delete_embeddings_for_game: one DELETE inside with_connection; view is
\* the set of chunk rows it removed.
ConcDelete(r) ==
    /\ rq[r].pc = "inside" /\ rq[r].op = "delete_embeddings_for_game"
    /\ LET result == delete_embeddings_for_game(embeddings, rq[r].game_id,
                                                rq[r].source_type)
       IN  /\ embeddings' = result.emb
           /\ rq' = [rq EXCEPT ![r].pc = "done", ![r].value = result.value,
                               ![r].view = Ids(Range(embeddings)) \ Ids(Range(result.emb))]
    /\ lock' = Guard(r, TRUE)
    /\ UNCHANGED <<vec_embeddings, out, ck, em, uploadVars>>

\* The handler has its result.
ConcReturn(r) ==
    /\ rq[r].pc = "done"
    /\ rq' = [rq EXCEPT ![r] = NoRequest]
    /\ UNCHANGED <<embeddings, vec_embeddings, out, ck, em, uploadVars, lock>>

ConcNext ==
    \E r \in Requests :
        \/ ConcCallInsertBatch(r)
        \/ ConcCallRead(r)
        \/ ConcLock(r)
        \/ ConcInsert(r)
        \/ ConcCommit(r)
        \/ ConcList(r)
        \/ ConcSearch(r)
        \/ ConcDelete(r)
        \/ ConcReturn(r)

SpecConc == Init /\ [][ConcNext]_vars

\* The requests executing a closure on the connection.
Inside == {r \in Requests : rq[r].pc = "inside"}

\* C18: at most one request is inside with_connection or with_transaction
\* at any time, so no two closures run on the connection together.
C18_OneRequestOnConnection == Cardinality(Inside) <= 1

\* A transaction has written a chunk and not yet committed while another
\* request waits for the connection.
C18_Witness ==
    \E w, r \in Requests :
        /\ rq[w].pc = "inside" /\ rq[w].op = "insert_batch" /\ Len(rq[w].ids) > 0
        /\ rq[r].pc = "waiting"

\* The requests that have observed or deleted chunks, each with the set of
\* chunk ids it observed or deleted.
Observers ==
    {r \in Requests :
        /\ rq[r].pc = "done"
        /\ rq[r].op \in {"get_embeddings_for_game", "similarity_search",
                         "delete_embeddings_for_game"}}

\* The batches being inserted or inserted: the ids written so far.
Writers ==
    {w \in Requests :
        /\ rq[w].pc \in {"inside", "done"}
        /\ rq[w].op = "insert_batch"
        /\ rq[w].ids # <<>>}

\* C19: whatever the interleaving, a request that lists, searches or deletes
\* next to an insert_batch has seen or deleted none of the chunks of the
\* batch or all of them: never some chunks of a batch that is not yet
\* committed, never a part of a committed one.
C19_BatchSeenWholeOrNotAtAll ==
    \A w \in Writers, r \in Observers :
        LET batch == Range(rq[w].ids)
            committed == rq[w].pc = "done" /\ rq[w].ok
        IN  \/ rq[r].view \cap batch = {}
            \/ committed /\ batch \subseteq rq[r].view

\* A batch of two chunks was committed and another request, which had to
\* wait for the connection meanwhile, has listed both.
C19_Witness ==
    \E w, r \in Requests :
        /\ rq[w].pc = "done" /\ rq[w].op = "insert_batch" /\ rq[w].ok
        /\ Len(rq[w].ids) = MaxBatch
        /\ rq[r].pc = "done" /\ rq[r].op = "get_embeddings_for_game"
        /\ Range(rq[w].ids) \subseteq rq[r].view

----------------------------------------------------------------------------
(* handlers/upload.rs: the stages of an upload *)

\* The steps an upload takes once its request is in the handler: each ends
\* when the call it makes returns.
UploadStep(r) ==
    \/ UploadGetGame(r)
    \/ UploadSaveFile(r)
    \/ UploadProcessPdf(r)
    \/ UploadGenerateEmbeddings(r)
    \/ UploadUpdateGame(r)
    \/ UploadInsertBatch(r)

\* The uploads when every call an upload makes returns.
SpecUploadLive == SpecUpload /\ \A r \in Uploads : WF_vars(UploadStep(r))

StageOrder ==
    <<"Received", "Validated", "TextExtracted", "Chunked", "Embedded", "Persisted">>

TerminalStages == {"Persisted", "Failed"}

\* stages is a start of StageOrder, or a start of it that stops before
\* Persisted followed by Failed.
InStageOrder(stages) ==
    LET n == Len(stages)
        m == IF n > 0 /\ stages[n] = "Failed" THEN n - 1 ELSE n
    IN  /\ m <= Len(StageOrder)
        /\ \A i \in 1..m : stages[i] = StageOrder[i]
        /\ m < n => m >= 1 /\ m < Len(StageOrder)

AtTerminal(u) == u.stages # <<>> /\ u.stages[Len(u.stages)] \in TerminalStages

\* The stages passed are in order, and the handler has returned exactly
\* when the last one is Persisted or Failed.
StagesInOrder ==
    \A r \in Uploads :
        /\ InStageOrder(up[r].stages)
        /\ AtTerminal(up[r]) <=> up[r].pc = "responded"
        /\ up[r].pc = "idle" <=> up[r].stages = <<>>

\* A step of an upload keeps the stages passed and may add to their end;
\* after a terminal stage the only step is the end of the request, which touches
\* neither the files nor the tables.
StagesOnlyGrow ==
    \A r \in Uploads :
        /\ (~AtTerminal(up[r]) /\ up'[r] # up[r]) =>
              /\ Len(up'[r].stages) >= Len(up[r].stages)
              /\ SubSeq(up'[r].stages, 1, Len(up[r].stages)) = up[r].stages
        /\ (AtTerminal(up[r]) /\ up'[r] # up[r]) =>
              /\ up'[r] = Idle
              /\ UNCHANGED <<files, games, embeddings, vec_embeddings>>

\* C20: an upload passes Received, Validated, TextExtracted, Chunked,
\* Embedded, Persisted in this order without skipping or repeating one, may
\* go to Failed from any stage before Persisted, does nothing to the files
\* or the store after Persisted or Failed, and, when every call it makes
\* returns, ends in one of the two.
C20_StagesInOrderToOneEnd ==
    /\ []StagesInOrder
    /\ [][StagesOnlyGrow]_vars
    /\ \A r \in Uploads : (up[r].pc # "idle") ~> AtTerminal(up[r])

\* An upload has passed all six stages with chunks inserted.
C20_Witness ==
    \E r \in Uploads :
        /\ up[r].stages = StageOrder
        /\ up[r].inserted # <<>>

----------------------------------------------------------------------------
(* handlers/upload.rs: upload_rules_pdf next to delete_rules *)

\* A well-formed body whose text makes one chunk; the calls of the handler
\* succeed or fail; the service answers in order or not at all.
RulesInputs ==
    [game_ids |-> GameIds, bodies |-> {PDF_MAGIC},
     texts |-> {text \in ExtractedTexts : Len(chunk_text(text)) = 1},
     call_ok |-> BOOLEAN, any_response |-> FALSE]

RulesUploadStep(r) ==
    \/ /\ NewRowid(embeddings) <= MaxRowid
       /\ UploadValidateOn(RulesInputs, r)
    \/ UploadGetGameOn(RulesInputs, r)
    \/ UploadSaveFileOn(RulesInputs, r)
    \/ UploadProcessPdfOn(RulesInputs, r)
    \/ UploadGenerateEmbeddingsOn(RulesInputs, r)
    \/ UploadUpdateGameOn(RulesInputs, r)
    \/ UploadInsertBatchOn(RulesInputs, r)
    \/ UploadReturn(r)

\* The caller of delete_rules takes its response.
DeleteRulesReturn ==
    /\ out # NoCall /\ out.op = "delete_rules"
    /\ DeleteReturn

RulesNext ==
    \/ \E r \in Uploads : RulesUploadStep(r)
    \/ DeleteRulesGetPath
    \/ DeleteRulesEmbeddings
    \/ DeleteRulesUpdateGame
    \/ DeleteRulesRemoveFile
    \/ DeleteRulesReturn
    \/ CreateGame

SpecRules == Init /\ [][RulesNext]_vars

\* The step of upload r from s to t belongs to an upload that has not got
\* past the check of the game.
BeforeGameFound(s, t) ==
    /\ t # s
    /\ \/ t.pc = "get_game"
       \/ s.pc = "get_game" /\ t.pc = "responded"
       \/ s.pc = "responded" /\ s.response = "not_found"

\* C21: upload_rules_pdf with a well-formed body and delete_rules answer
\* not found for a game that does not exist (the upload unless the read of
\* the game itself fails), and no step of a request that is answered so
\* writes or removes a file, inserts or deletes a chunk, or changes a game.
C21_NotFoundChangesNothing ==
    [][ /\ \A r \in Uploads :
            /\ BeforeGameFound(up[r], up'[r]) =>
                  UNCHANGED <<files, games, embeddings, vec_embeddings>>
            /\ (up[r].pc = "get_game" /\ up'[r] # up[r]
                    /\ up[r].game_id \notin DOMAIN games) =>
                  /\ up'[r].response \in {"not_found", "internal_error"}
                  /\ up'[r].file_path = None
            /\ (up'[r] # up[r] /\ up'[r].response = "not_found") =>
                  up[r].game_id \notin DOMAIN games
        /\ (out = NoCall /\ out' # NoCall /\ out'.op = "delete_rules") =>
              /\ out'.response = "not_found" <=> out'.game_id \notin DOMAIN games
              /\ UNCHANGED <<files, games, embeddings, vec_embeddings>>
        /\ (out # NoCall /\ out.op = "delete_rules" /\ out.response = "not_found"
                /\ out' # out) =>
              /\ out' = NoCall
              /\ UNCHANGED <<files, games, embeddings, vec_embeddings>>
      ]_vars

\* An upload and a delete_rules have both been answered not found while a
\* file of another game is in the uploads directory.
C21_Witness ==
    /\ \E r \in Uploads : up[r].pc = "responded" /\ up[r].response = "not_found"
    /\ out # NoCall /\ out.op = "delete_rules" /\ out.response = "not_found"
    /\ files # {}

----------------------------------------------------------------------------
(* models/embedding.rs, handlers/chat.rs: the requests a search is run with *)

SEARCH_RULES_LIMIT == 5        \* search_query.limit.unwrap_or(5)
SEARCH_RULES_THRESHOLD == 0    \* similarity_threshold: 0.0
USIZE_LIMBS == 4               \* a usize is held as four 16-bit limbs

\* A usize, most significant limb first.
Usize(w3, w2, w1, w0) == <<w3, w2, w1, w0>>

\* `limit as u32`: the low 32 bits
AsU32(limit) == limit[USIZE_LIMBS - 1] * U16 + limit[USIZE_LIMBS]

\* The limits a caller may put into the query string: none, small ones,
\* the least whose triple does not fit 32 bits, and 2^32 + 1.
CallerLimits ==
    { None, Some(Usize(0, 0, 0, 0)), Some(Usize(0, 0, 0, 1)),
      Some(Usize(0, 0, 0, default_search_limit)),
      Some(Usize(0, 0, 21845, 21846)), Some(Usize(0, 1, 0, 1)) }

unwrap_or(option, default) == IF option = None THEN default ELSE option[1]

\* SimilaritySearchRequest read by serde with default_search_limit and
\* default_similarity_threshold for the fields that are missing.
Deserialize(game_id, query_embedding, limit, similarity_threshold) ==
    [game_id |-> game_id, query_embedding |-> query_embedding,
     limit |-> unwrap_or(limit, default_search_limit),
     similarity_threshold |-> unwrap_or(similarity_threshold,
                                        default_similarity_threshold)]

\* The request search_rules builds (chat.rs:141, 161-166).
SearchRulesRequest(game_id, query_embedding, limit) ==
    [game_id |-> game_id, query_embedding |-> query_embedding,
     similarity_threshold |-> SEARCH_RULES_THRESHOLD,
     limit |-> AsU32(unwrap_or(limit, Usize(0, 0, 0, SEARCH_RULES_LIMIT)))]

\* A search with a request read from its serialized form.
SearchDeserialized ==
    /\ out = NoCall
    /\ \E g \in SearchGameIds, q \in Vecs, limit \in {None, Some(1)},
          t \in {None, Some(One)}, rev \in BOOLEAN :
        LET request == Deserialize(g, q, limit, t)
        IN  out' = [op |-> "search", limit |-> limit, similarity_threshold |-> t,
                    request |-> request,
                    results |-> similarity_search(embeddings, vec_embeddings,
                                                  request, rev)]
    /\ UNCHANGED <<embeddings, vec_embeddings, ck, em, uploadVars, concVars>>

\* GET /api/chat/search-rules: the query is embedded (the call may fail) and
\* the search run with the request the handler builds.
SearchRules ==
    /\ out = NoCall
    /\ \E g \in SearchGameIds, limit \in CallerLimits, embed_ok \in BOOLEAN,
          q \in Vecs, rev \in BOOLEAN :
        LET request == SearchRulesRequest(g, q, limit)
        IN  out' = IF embed_ok
                   THEN [op |-> "search_rules", limit |-> limit, ok |-> TRUE,
                         request |-> request,
                         results |-> similarity_search(embeddings, vec_embeddings,
                                                       request, rev)]
                   ELSE [op |-> "search_rules", limit |-> limit, ok |-> FALSE,
                         request |-> request, results |-> <<>>]
    /\ UNCHANGED <<embeddings, vec_embeddings, ck, em, uploadVars, concVars>>

SearchNext == StoreInsertBatch \/ SearchDeserialized \/ SearchRules \/ StoreReturn

SpecSearch == Init /\ [][SearchNext]_vars

\* C22: a search whose caller names no limit and no similarity_threshold
\* runs with limit 10 and threshold 0.5, be the request read with its
\* defaults or built by search_rules.
C22_DefaultsTenAndHalf ==
    /\ (out # NoCall /\ out.op = "search") =>
          /\ out.limit = None => out.request.limit = default_search_limit
          /\ out.similarity_threshold = None =>
                out.request.similarity_threshold = default_similarity_threshold
    /\ (out # NoCall /\ out.op = "search_rules" /\ out.ok /\ out.limit = None) =>
          /\ out.request.limit = default_search_limit
          /\ out.request.similarity_threshold = default_similarity_threshold

----------------------------------------------------------------------------
(* handlers/chat.rs: enhance_search_query, on texts of ASCII characters *)

MaxFragments == 3

starts_with(s, prefix) ==
    Len(s) >= Len(prefix) /\ SubSeq(s, 1, Len(prefix)) = prefix

strip_prefix(s, prefix) ==
    IF starts_with(s, prefix) THEN Some(SubSeq(s, Len(prefix) + 1, Len(s))) ELSE None

or_else(option, other) == IF option = None THEN other ELSE option

MatchAt(s, i, pattern) ==
    i + Len(pattern) - 1 <= Len(s) /\ SubSeq(s, i, i + Len(pattern) - 1) = pattern

RECURSIVE ReplaceFrom(_, _, _, _)
\* str::replace from position i on: the non-overlapping matches, left to right
ReplaceFrom(s, i, from, to) ==
    IF i > Len(s) THEN <<>>
    ELSE IF MatchAt(s, i, from) THEN to \o ReplaceFrom(s, i + Len(from), from, to)
    ELSE <<s[i]>> \o ReplaceFrom(s, i + 1, from, to)

replace(s, from, to) == ReplaceFrom(s, 1, from, to)

concept_mappings ==
    << [concept |-> <<"w", "i", "n">>,
        equivalents |-> << <<"v", "i", "c", "t", "o", "r", "y">>,
                        <<"w", "i", "n", "n", "i", "n", "g", " ", "c", "o", "n", "d", "i", "t", "i", "o", "n">>,
                        <<"g", "a", "m", "e", " ", "e", "n", "d">> >>],
       [concept |-> <<"l", "o", "s", "e">>,
        equivalents |-> << <<"d", "e", "f", "e", "a", "t">>,
                        <<"e", "l", "i", "m", "i", "n", "a", "t", "i", "o", "n">>,
                        <<"l", "o", "s", "i", "n", "g", " ", "c", "o", "n", "d", "i", "t", "i", "o", "n">> >>],
       [concept |-> <<"t", "u", "r", "n">>,
        equivalents |-> << <<"r", "o", "u", "n", "d">>,
                        <<"p", "h", "a", "s", "e">>,
                        <<"p", "l", "a", "y", "e", "r", " ", "t", "u", "r", "n">> >>],
       [concept |-> <<"m", "o", "v", "e">>,
        equivalents |-> << <<"m", "o", "v", "e", "m", "e", "n", "t">>,
                        <<"m", "o", "v", "i", "n", "g", " ", "p", "i", "e", "c", "e", "s">>,
                        <<"r", "e", "l", "o", "c", "a", "t", "e">> >>],
       [concept |-> <<"a", "t", "t", "a", "c", "k">>,
        equivalents |-> << <<"c", "o", "m", "b", "a", "t">>,
                        <<"b", "a", "t", "t", "l", "e">>,
                        <<"f", "i", "g", "h", "t">> >>],
       [concept |-> <<"d", "e", "f", "e", "n", "d">>,
        equivalents |-> << <<"d", "e", "f", "e", "n", "s", "e">>,
                        <<"b", "l", "o", "c", "k">>,
                        <<"p", "r", "o", "t", "e", "c", "t", "i", "o", "n">> >>],
       [concept |-> <<"p", "o", "i", "n", "t", "s">>,
        equivalents |-> << <<"s", "c", "o", "r", "e">>,
                        <<"s", "c", "o", "r", "i", "n", "g">>,
                        <<"v", "i", "c", "t", "o", "r", "y", " ", "p", "o", "i", "n", "t", "s">> >>],
       [concept |-> <<"c", "a", "r", "d", "s">>,
        equivalents |-> << <<"h", "a", "n", "d">>,
                        <<"d", "e", "c", "k">>,
                        <<"d", "r", "a", "w">> >>],
       [concept |-> <<"d", "i", "c", "e">>,
        equivalents |-> << <<"r", "o", "l", "l">>,
                        <<"r", "o", "l", "l", "i", "n", "g">>,
                        <<"d", "i", "e">> >>],
       [concept |-> <<"s", "e", "t", "u", "p">>,
        equivalents |-> << <<"p", "r", "e", "p", "a", "r", "a", "t", "i", "o", "n">>,
                        <<"i", "n", "i", "t", "i", "a", "l", " ", "s", "e", "t", "u", "p">>,
                        <<"g", "a", "m", "e", " ", "s", "e", "t", "u", "p">> >>],
       [concept |-> <<"e", "n", "d">>,
        equivalents |-> << <<"f", "i", "n", "i", "s", "h">>,
                        <<"c", "o", "n", "c", "l", "u", "s", "i", "o", "n">>,
                        <<"g", "a", "m", "e", " ", "o", "v", "e", "r">> >>] >>

RECURSIVE TermsFrom(_, _)
\* the loop of extract_game_terms from mapping i on
TermsFrom(query, i) ==
    IF i > Len(concept_mappings) THEN <<>>
    ELSE (IF contains(query, concept_mappings[i].concept)
          THEN concept_mappings[i].equivalents ELSE <<>>)
         \o TermsFrom(query, i + 1)

extract_game_terms(query) == TermsFrom(query, 1)

HowParts(query_lower) ==
    LET without_prefix ==
            unwrap_or(or_else(strip_prefix(query_lower, <<"h", "o", "w", " ", "d", "o", " ", "i", " ">>),
                              strip_prefix(query_lower, <<"h", "o", "w", " ", "t", "o", " ">>)),
                      query_lower)
    IN  << without_prefix,
           <<"r", "u", "l", "e", "s", " ", "f", "o", "r", " ">> \o without_prefix,
           <<"i", "n", "s", "t", "r", "u", "c", "t", "i", "o", "n", "s", " ">> \o without_prefix >>

WhatParts(query_lower) ==
    IF contains(query_lower, <<"h", "a", "p", "p", "e", "n", "s">>)
    THEN << replace(query_lower, <<"w", "h", "a", "t", " ", "h", "a", "p", "p", "e", "n", "s">>, <<"w", "h", "e", "n">>),
            replace(query_lower, <<"w", "h", "a", "t", " ", "h", "a", "p", "p", "e", "n", "s">>, <<"r", "u", "l", "e", "s">>) >>
    ELSE IF contains(query_lower, <<"c", "a", "n", " ", "i">>) \/ contains(query_lower, <<"m", "a", "y", " ", "i">>)
    THEN << replace(query_lower, <<"w", "h", "a", "t", " ", "c", "a", "n", " ", "i">>, <<"p", "l", "a", "y", "e", "r", " ", "m", "a", "y">>),
            replace(query_lower, <<"w", "h", "a", "t", " ", "m", "a", "y", " ", "i">>, <<"p", "l", "a", "y", "e", "r", " ", "m", "a", "y">>),
            <<"a", "l", "l", "o", "w", "e", "d", " ", "a", "c", "t", "i", "o", "n", "s">> >>
    ELSE << query_lower >>

WhenParts(query_lower) ==
    << query_lower, replace(query_lower, <<"w", "h", "e", "n">>, <<"i", "f">>), <<"t", "i", "m", "i", "n", "g", " ", "r", "u", "l", "e", "s">> >>

CanParts(query_lower) ==
    LET without_prefix ==
            unwrap_or(or_else(strip_prefix(query_lower, <<"c", "a", "n", " ", "i", " ">>),
                              strip_prefix(query_lower, <<"m", "a", "y", " ", "i", " ">>)),
                      query_lower)
    IN  << <<"p", "l", "a", "y", "e", "r", " ", "m", "a", "y", " ">> \o without_prefix,
           <<"a", "l", "l", "o", "w", "e", "d", " ", "t", "o", " ">> \o without_prefix,
           without_prefix >>

enhance_search_query(query) ==
    LET query_lower == to_lowercase(query)
        enhanced_parts ==
            (IF starts_with(query_lower, <<"h", "o", "w", " ", "d", "o", " ", "i">>) \/ starts_with(query_lower, <<"h", "o", "w", " ", "t", "o">>)
             THEN HowParts(query_lower)
             ELSE IF starts_with(query_lower, <<"w", "h", "a", "t">>) THEN WhatParts(query_lower)
             ELSE IF starts_with(query_lower, <<"w", "h", "e", "n">>) THEN WhenParts(query_lower)
             ELSE IF starts_with(query_lower, <<"c", "a", "n", " ", "i">>) \/ starts_with(query_lower, <<"m", "a", "y", " ", "i">>)
             THEN CanParts(query_lower)
             ELSE << query_lower >>)
            \o extract_game_terms(query_lower)
    IN  IF enhanced_parts # <<>>
        THEN query \o <<" ">> \o Join(enhanced_parts, <<" ">>)
        ELSE query

\* The pieces queries are put together from.
Fragments ==
    { <<"h", "o", "w", " ", "d", "o", " ", "i">>,
      <<"H", "o", "w", " ", "d", "o", " ", "I">>,
      <<" ">>,
      <<"h", "o", "w", " ", "t", "o", " ">>,
      <<"w", "h", "a", "t">>,
      <<" ", "h", "a", "p", "p", "e", "n", "s">>,
      <<" ", "c", "a", "n", " ", "i">>,
      <<"w", "h", "e", "n">>,
      <<"c", "a", "n", " ", "i", " ">>,
      <<"m", "a", "y", " ", "i", " ">>,
      <<"w", "i", "n">>,
      <<"t">>,
      <<"e", "n", "d">> }

Queries ==
    { Join(pieces, <<>>) : pieces \in UNION {[1..n -> Fragments] : n \in 0..MaxFragments} }

\* A query arrives.
EnhanceReceive ==
    /\ out = NoCall
    /\ \E query \in Queries : out' = [op |-> "enhance", pc |-> "received", query |-> query]
    /\ UNCHANGED <<embeddings, vec_embeddings, ck, em, uploadVars, concVars>>

\* enhance_search_query runs on it.
EnhanceQuery ==
    /\ out # NoCall /\ out.op = "enhance" /\ out.pc = "received"
    /\ out' = [out EXCEPT !.pc = "done", !.query = out.query] @@
              [enhanced |-> enhance_search_query(out.query)]
    /\ UNCHANGED <<embeddings, vec_embeddings, ck, em, uploadVars, concVars>>

EnhanceNext == EnhanceReceive \/ EnhanceQuery

SpecEnhance == Init /\ [][EnhanceNext]_vars

HOW_DO_I == <<"h", "o", "w", " ", "d", "o", " ", "i">>

\* C23: for a query whose lower-cased form starts with "how do i", the
\* result is the original query, then X, "rules for X", "instructions X" and
\* the synonym terms, space-separated, where X is the lower-cased query with
\* the "how do i" prefix (and the space after it, if any) removed.
C23_HowDoIBecomesStatement ==
    (out # NoCall /\ out.op = "enhance" /\ out.pc = "done"
        /\ starts_with(to_lowercase(out.query), HOW_DO_I)) =>
        LET query_lower == to_lowercase(out.query)
            rest == SubSeq(query_lower, Len(HOW_DO_I) + 1, Len(query_lower))
            X == IF starts_with(rest, <<" ">>) THEN Tail(rest) ELSE rest
        IN  out.enhanced =
                out.query \o <<" ">> \o
                Join(<< X, <<"r", "u", "l", "e", "s", " ", "f", "o", "r", " ">> \o X, <<"i", "n", "s", "t", "r", "u", "c", "t", "i", "o", "n", "s", " ">> \o X >>
                     \o extract_game_terms(query_lower), <<" ">>)

----------------------------------------------------------------------------
(* Chunks and their vectors *)

ChunkIds(emb) == {emb[i].id : i \in 1..Len(emb)}

\* C24: after any sequence of inserts and deletes the rowids of the vector
\* table are the ids of the chunk table: no vector outlives its chunk and no
\* chunk lacks a vector.
C24_ChunksAndVectorsOneToOne ==
    VecRowids(vec_embeddings) = ChunkIds(embeddings)

----------------------------------------------------------------------------
(* upload_rules_pdf again and again *)

ReuploadNext == (\E r \in Uploads : RulesUploadStep(r)) \/ CreateGame

SpecReupload == Init /\ [][ReuploadNext]_vars

DocumentRows(emb, game_id) ==
    SelectSeq(emb, LAMBDA row : row.game_id = game_id /\ row.source_type = "rules_pdf")

FilesOf(fs, game_id) == {path \in fs : path[1] = game_id}

\* C25: when an upload has answered with success and no delete_rules ran,
\* the document chunks stored for its game are exactly its own chunks, with
\* chunk_index 0..n-1, and the path in the game record names the only
\* upload file kept for the game.
C25_LatestUploadReplaces ==
    \A r \in Uploads :
        (up[r].pc = "responded" /\ up[r].response = "ok") =>
            LET rows == DocumentRows(embeddings, up[r].game_id)
            IN  /\ Len(rows) = Len(up[r].chunks)
                /\ \A i \in 1..Len(rows) :
                      /\ rows[i].chunk_index = i - 1
                      /\ rows[i].chunk_text = up[r].chunks[i]
                /\ up[r].game_id \in DOMAIN games
                /\ games[up[r].game_id].rules_pdf_path = up[r].file_path
                /\ FilesOf(files, up[r].game_id) = {up[r].file_path[1]}

----------------------------------------------------------------------------
(* handlers/upload.rs: uploads in flight together *)

\* Uploads of well-formed bodies whose text makes one chunk.
TogetherInputs ==
    [game_ids |-> GameIds, bodies |-> {PDF_MAGIC},
     texts |-> {CHOOSE text \in ExtractedTexts : Len(chunk_text(text)) = 1},
     call_ok |-> BOOLEAN, any_response |-> FALSE]

TogetherUploadStep(r) ==
    \/ /\ NewRowid(embeddings) <= MaxRowid
       /\ UploadValidateOn(TogetherInputs, r)
    \/ UploadGetGameOn(TogetherInputs, r)
    \/ UploadSaveFileOn(TogetherInputs, r)
    \/ UploadProcessPdfOn(TogetherInputs, r)
    \/ UploadGenerateEmbeddingsOn(TogetherInputs, r)
    \/ UploadUpdateGameOn(TogetherInputs, r)
    \/ UploadInsertBatchOn(TogetherInputs, r)
    \/ UploadReturn(r)

TogetherNext == (\E r \in 1..MaxTogether : TogetherUploadStep(r)) \/ CreateGame

SpecTogether == Init /\ [][TogetherNext]_vars

\* The upload has saved its file and has not answered yet.
HoldsFile(u) == u.file_path # None /\ u.pc \notin {"idle", "responded"}

\* C26: uploads in flight together do not share a file: no two of them hold
\* the same path, and the file of an upload that answers with success is
\* there.
C26_UploadsShareNoFile ==
    /\ \A r, s \in 1..MaxTogether :
          (r # s /\ HoldsFile(up[r]) /\ HoldsFile(up[s])) =>
              up[r].file_path # up[s].file_path
    /\ \A r \in 1..MaxTogether :
          (up[r].pc = "responded" /\ up[r].response = "ok") =>
              up[r].file_path[1] \in files

----------------------------------------------------------------------------
(* upload_rules_pdf racing delete_rules *)

NoRequestInFlight == out = NoCall /\ \A r \in Uploads : up[r].pc = "idle"

Cleared(game) == game.rules_pdf_path = None /\ game.rules_text = None

\* A game without rules has no document chunks.
ClearedGamesHaveNoChunks ==
    NoRequestInFlight =>
        \A g \in DOMAIN games :
            Cleared(games[g]) => DocumentRows(embeddings, g) = <<>>

\* The file of an upload that answers with success, no delete_rules being
\* in flight, is the one the game record names or is gone.
KeptFileIsReferenced ==
    \A r \in Uploads :
        (out = NoCall /\ up[r].pc = "responded" /\ up[r].response = "ok"
            /\ up[r].file_path[1] \in files) =>
            /\ up[r].game_id \in DOMAIN games
            /\ games[up[r].game_id].rules_pdf_path = up[r].file_path

\* C27: however upload_rules_pdf and delete_rules on one game interleave,
\* once no request is in flight a game whose rules_pdf_path and rules_text
\* are NULL has no document chunks, and the file of a successful upload is
\* referenced by the game record or removed.
C27_RecordAndChunksAgree == ClearedGamesHaveNoChunks /\ KeptFileIsReferenced

----------------------------------------------------------------------------
(* db/mod.rs and models/state.rs: the mutexes a request takes *)

\* The connection of Database and the three maps of the in-memory AppState.
Mutexes == {"conn", "games", "house_rules", "pdf_documents"}

\* The calls each handler makes, in order, each with the mutex it locks.
HandlerCalls ==
    { <<"games">>,                       \* create_game, list_games, get_game
      <<"games", "pdf_documents">>,      \* upload_pdf_document, list_pdf_documents_for_game
      <<"games", "house_rules">>,        \* create_house_rule, list_house_rules_for_game
      <<"conn">>,                        \* search_rules, delete_game
      <<"conn", "conn", "conn">> }       \* upload_rules_pdf, delete_rules

\* The mutexes the request holds.
Holding(task) == IF task.pc = "idle" THEN {} ELSE task.holding

\* self.X.lock(): the mutex is free when no request holds it.
Unlocked(tasks, mutex) == \A r \in Requests : mutex \notin Holding(tasks[r])

\* The method returns with its guard still alive.
MethodReturnKeepsGuard(task) ==
    IF task.step < Len(task.calls)
    THEN [task EXCEPT !.pc = "waiting", !.step = @ + 1]
    ELSE NoRequest

\* The method returns: its guard is dropped, and the handler goes on to
\* its next call or, after its last one, answers.
MethodReturn(task) ==
    IF task.step < Len(task.calls)
    THEN [task EXCEPT !.pc = "waiting", !.step = @ + 1,
                      !.holding = @ \ {task.calls[task.step]}]
    ELSE NoRequest

\* A request for one of the handlers arrives and reaches its first call.
LockCall(r) ==
    /\ rq[r] = NoRequest
    /\ \E calls \in HandlerCalls :
        rq' = [rq EXCEPT ![r] = [pc |-> "waiting", calls |-> calls, step |-> 1,
                                 holding |-> {}]]
    /\ UNCHANGED <<storeVars, ck, em, uploadVars, lock>>

\* lock().unwrap() returns the guard.
LockAcquire(r) ==
    /\ rq[r].pc = "waiting"
    /\ Unlocked(rq, rq[r].calls[rq[r].step])
    /\ rq' = [rq EXCEPT ![r] = [@ EXCEPT !.pc = "inside",
                                         !.holding = @ \cup {rq[r].calls[rq[r].step]}]]
    /\ UNCHANGED <<storeVars, ck, em, uploadVars, lock>>

\* The body of the method or closure runs to its end.
LockRelease(r) ==
    /\ rq[r].pc = "inside"
    /\ rq' = [rq EXCEPT ![r] = MethodReturn(@)]
    /\ UNCHANGED <<storeVars, ck, em, uploadVars, lock>>

\* The handler answers before its next call (game not found, an error).
LockReturnEarly(r) ==
    /\ rq[r].pc = "waiting" /\ rq[r].step > 1
    /\ rq' = [rq EXCEPT ![r] = NoRequest]
    /\ UNCHANGED <<storeVars, ck, em, uploadVars, lock>>

LockNext ==
    \E r \in Requests :
        LockCall(r) \/ LockAcquire(r) \/ LockRelease(r) \/ LockReturnEarly(r)

SpecLocks == Init /\ [][LockNext]_vars

\* Fair scheduling: a request inside a method goes on, and a request that
\* finds its mutex free again and again gets it.
SpecLocksFair ==
    SpecLocks /\ \A r \in Requests :
        WF_vars(LockRelease(r)) /\ SF_vars(LockAcquire(r))

AtMostOneLock == \A r \in Requests : Cardinality(Holding(rq[r])) <= 1

WaitsWithEmptyHands ==
    \A r \in Requests : rq[r].pc = "waiting" => Holding(rq[r]) = {}

\* C28: no request holds more than one lock, none waits for a lock while
\* holding one, and under fair scheduling every request waiting for a lock
\* gets it.
C28_OneLockAndNoDeadlock ==
    /\ [](AtMostOneLock /\ WaitsWithEmptyHands)
    /\ \A r \in Requests : (rq[r].pc = "waiting") ~> (rq[r].pc # "waiting")

\* One request is inside the second call of its handler while another
\* waits for the mutex it holds.
C28_Witness ==
    \E r, s \in Requests :
        /\ r # s
        /\ rq[r].pc = "inside" /\ rq[r].step = 2
        /\ rq[s].pc = "waiting" /\ rq[s].calls[rq[s].step] \in Holding(rq[r])

----------------------------------------------------------------------------
(* similarity_search: the number of candidates asked of the index *)

\* 3 * limit in unbounded arithmetic, as hi * 2^16 + lo with hi not cut
ExactTimes3(limit) ==
    LET lo3 == (limit % U16) * SEARCH_FACTOR
    IN  [hi |-> (limit \div U16) * SEARCH_FACTOR + lo3 \div U16, lo |-> lo3 % U16]

ExactSearchLimit(limit) ==
    LET p == ExactTimes3(limit)
    IN  IF p.hi > 0 THEN p ELSE [hi |-> 0, lo |-> Max(p.lo, MIN_SEARCH_LIMIT)]

AtLeast(halves, n) ==
    \/ halves.hi > n \div U16
    \/ halves.hi = n \div U16 /\ halves.lo >= n % U16

\* C29: the number of candidates a search asks of the index is
\* max(3 * limit, 50) in unbounded arithmetic, and so at least limit, also
\* for a limit search_rules got by casting a usize to u32.
C29_CandidatesNeverWrap ==
    (out # NoCall /\ (out.op = "search" \/ (out.op = "search_rules" /\ out.ok))) =>
        /\ SearchLimit(out.request.limit) = ExactSearchLimit(out.request.limit)
        /\ AtLeast(SearchLimit(out.request.limit), out.request.limit)

----------------------------------------------------------------------------
(* upload_rules_pdf racing delete_game *)

\* The schema takes chunks of any game.
ForeignKeyNotChecked(g, requests) == TRUE

\* What the schema asks of a chunk that is inserted: its game_id names a
\* row of games.
ForeignKeyHolds(g, requests) ==
    \A i \in 1..Len(requests) : requests[i].game_id \in DOMAIN g

\* create_embeddings_batch of the upload: the first INSERT INTO embeddings of
\* a chunk whose game is gone fails, the transaction is rolled back and the
\* handler removes its file.
GameGoneInsertBatch(r) ==
    \/ /\ ForeignKeyHolds(games, EmbeddingRequests(up[r]))
       /\ UploadInsertBatchOn(RulesInputs, r)
    \/ /\ up[r].pc = "insert"
       /\ ~ForeignKeyHolds(games, EmbeddingRequests(up[r]))
       /\ files' = remove_file(files, up[r].file_path)
       /\ up' = [up EXCEPT ![r] = [Respond(@, "internal_error", "insert") EXCEPT
                                      !.batch_called = TRUE]]
       /\ UNCHANGED <<games, clock, embeddings, vec_embeddings, out, ck, em,
                      house_rules, concVars>>

\* One upload at a time is set against delete_game.
GameGoneUploadStep(r) ==
    \/ /\ NewRowid(embeddings) <= MaxRowid
       /\ \A s \in Uploads : up[s].pc = "idle"
       /\ UploadValidateOn(RulesInputs, r)
    \/ UploadGetGameOn(RulesInputs, r)
    \/ UploadSaveFileOn(RulesInputs, r)
    \/ UploadProcessPdfOn(RulesInputs, r)
    \/ UploadGenerateEmbeddingsOn(RulesInputs, r)
    \/ UploadUpdateGameOn(RulesInputs, r)
    \/ GameGoneInsertBatch(r)
    \/ UploadReturn(r)

\* The caller of delete_game takes its response.
DeleteGameReturn ==
    /\ out # NoCall /\ out.op = "delete_game"
    /\ DeleteReturn

\* Games are created while no upload is in flight.
CreateGameBetweenUploads ==
    /\ \A r \in Uploads : up[r].pc = "idle"
    /\ CreateGame

GameGoneNext ==
    \/ \E r \in Uploads : GameGoneUploadStep(r)
    \/ DeleteGame
    \/ DeleteGameReturn
    \/ CreateGameBetweenUploads

SpecGameGone == Init /\ [][GameGoneNext]_vars

NoChunkOfMissingGame ==
    \A row \in Range(embeddings) : row.game_id \in DOMAIN games

\* The step in which the batch is inserted and the upload answers success
\* finds the game there, with the text and the path of this upload.
SuccessOnGameThatCarries ==
    \A r \in Uploads :
        (up[r].pc = "insert" /\ up'[r].pc = "responded" /\ up'[r].response = "ok") =>
            /\ up[r].game_id \in DOMAIN games'
            /\ games'[up[r].game_id].rules_text = up[r].full_text
            /\ games'[up[r].game_id].rules_pdf_path = up[r].file_path
            /\ \A i \in 1..Len(up'[r].inserted) :
                  \E row \in Range(embeddings') :
                      row.id = up'[r].inserted[i] /\ row.game_id = up[r].game_id

============================================================================
